---- MODULE Spec2Model ----
(***************************************************************************)
(* Phi: the agent loop of src/ai.ts (streamResponse) together with its      *)
(* consumer, handleSubmit of src/index.tsx, and the chat file of            *)
(* src/local-data.ts.                                                       *)
(*                                                                          *)
(* Strings are modelled as sequences of tokens, so that prefixes            *)
(* ("Error: ") and concatenation are what they are in the code.             *)
(***************************************************************************)
EXTENDS Integers, Sequences, FiniteSets, TLC

\* Bound: tool invocations the model service may request over one turn.
\* It caps the number of tool rounds as well (every tool round holds >= 1).
MaxInvocations == 2

(***************************************************************************)
(* Data                                                                     *)
(***************************************************************************)

\* tools/*.ts: a tool as betaZodTool builds it, with its name and its run
\* function (named here after the tool it belongs to).
Tool(name) == [name |-> name, run |-> <<name, "run">>]
readFileTool == Tool("read_file")
writeFileTool == Tool("write_file")
editFileTool == Tool("edit_file")
bashTool == Tool("bash")
globTool == Tool("glob")
grepTool == Tool("grep")
webSearchTool == Tool("web_search")
todoTool == Tool("todo")
fileSearchTool == Tool("file_search")

\* src/tools/index.ts 12-21: the tools advertised to the model.
allTools ==
  <<readFileTool, writeFileTool, editFileTool, bashTool, globTool, grepTool,
    webSearchTool, todoTool>>

\* An object literal with computed keys: an entry replaces an earlier one
\* with the same key.
RECURSIVE ObjectLiteral(_)
ObjectLiteral(entries) ==
  IF entries = <<>> THEN [key \in {} |-> <<>>]
  ELSE LET last == entries[Len(entries)]
       IN  (last[1] :> last[2])
             @@ ObjectLiteral(SubSeq(entries, 1, Len(entries) - 1))

\* src/tools/index.ts 24-33
toolMap ==
  ObjectLiteral(<< <<readFileTool.name, readFileTool.run>>,
                   <<writeFileTool.name, writeFileTool.run>>,
                   <<editFileTool.name, editFileTool.run>>,
                   <<bashTool.name, bashTool.run>>,
                   <<globTool.name, globTool.run>>,
                   <<grepTool.name, grepTool.run>>,
                   <<webSearchTool.name, webSearchTool.run>>,
                   <<todoTool.name, todoTool.run>> >>)

\* The properties every object literal inherits from Object.prototype; all
\* of them are truthy.
ObjectPrototype ==
  {"constructor", "hasOwnProperty", "isPrototypeOf", "propertyIsEnumerable",
   "toLocaleString", "toString", "valueOf", "__proto__", "__defineGetter__",
   "__defineSetter__", "__lookupGetter__", "__lookupSetter__"}

\* object[key]: the own property, else the inherited one, else undefined.
Undefined == <<>>
PropertyOf(object, key) ==
  IF key \in DOMAIN object THEN object[key]
  ELSE IF key \in ObjectPrototype THEN <<"Object.prototype", key>>
  ELSE Undefined

\* Tool names the model service asks for: a registered one, and file_search,
\* which index.ts exports but does not register.
RequestedNames == {"edit_file", "file_search"}

\* What a registered tool function does once called: it returns its report,
\* it recovers an expected failure and returns an "Error: ..." string, or it
\* throws.
Outcomes == {"ok", "expected_failure", "throw"}

\* What a function inherited from Object.prototype does when called with
\* the invocation's input: Object(input) returns the input, others throw.
InheritedOutcomes == {"echo", "throw"}
OutcomesOf(name) ==
  IF name \in DOMAIN toolMap THEN Outcomes ELSE InheritedOutcomes

\* Tool names a response may carry besides those of RequestedNames.
InheritedNames == {"constructor"}

Prompt == <<"fix the bug">>
ErrorPrefix == "Error: "

\* The text the model writes in its r-th response of the turn.
RoundText(r) == <<"answer ", <<"one", "two", "three", "four", "five", "six">>[r]>>

\* Content blocks of a response. Invocation ids are the numbers 1, 2, ...
\* (0: no id); a tool input is the sequence of members of its JSON object.
TextBlock(r) ==
  [type |-> "text", text |-> RoundText(r), id |-> 0, name |-> "", input |-> <<>>]
ToolUseBlock(n, nm) ==
  [type |-> "tool_use", text |-> <<>>, id |-> n, name |-> nm,
   input |-> <<"path:a.ts">>]

\* Seq of tool_use blocks with ids first..first+Len(names)-1.
RECURSIVE ToolBlocks(_, _)
ToolBlocks(first, names) ==
  IF names = <<>> THEN <<>>
  ELSE <<ToolUseBlock(first, Head(names))>> \o ToolBlocks(first + 1, Tail(names))

\* Sequences over S of length 0..n.
SeqUpTo(S, n) == UNION {[1..k -> S] : k \in 0..n}

\* The contents a model response may have in round r, when `first` is the
\* next unused invocation id: an optional leading text block, then 0 or more
\* tool invocations within the budget.
ResponsesNaming(toolNames, r, first) ==
  LET budget == MaxInvocations - (first - 1)
  IN  {pre \o ToolBlocks(first, names) :
         pre \in {<<>>, <<TextBlock(r)>>}, names \in SeqUpTo(toolNames, budget)}
      \ {<<>>}
Responses(r, first) == ResponsesNaming(RequestedNames, r, first)

\* The event stream of one response (Model Service): message_start, then for
\* each block its start, one delta and its stop, keyed by the block's index
\* in the response (0-based), then message_stop.
NoBlock == [type |-> "none", text |-> <<>>, id |-> 0, name |-> "", input |-> <<>>]

ModelEvent(type, r, k, block, dtype, delta) ==
  [type |-> type, msg |-> r, index |-> k, content_block |-> block,
   delta_type |-> dtype, delta |-> delta]

BlockEvents(r, k, b) ==
  << ModelEvent("content_block_start", r, k,
                [b EXCEPT !.text = <<>>, !.input = <<>>], "", <<>>),
     IF b.type = "text"
     THEN ModelEvent("content_block_delta", r, k, NoBlock, "text_delta", b.text)
     ELSE ModelEvent("content_block_delta", r, k, NoBlock, "input_json_delta",
                     <<"{">> \o b.input \o <<"}">>),
     ModelEvent("content_block_stop", r, k, NoBlock, "", <<>>) >>

RECURSIVE AllBlockEvents(_, _, _)
AllBlockEvents(r, k, content) ==
  IF content = <<>> THEN <<>>
  ELSE BlockEvents(r, k, Head(content)) \o AllBlockEvents(r, k + 1, Tail(content))

StreamOf(r, content) ==
  << ModelEvent("message_start", r, -1, NoBlock, "", <<>>) >>
  \o AllBlockEvents(r, 0, content)
  \o << ModelEvent("message_stop", r, -1, NoBlock, "", <<>>) >>

\* MessageParam values of the transcript (ai.ts) and of the chat file.
UserTurn(text) ==
  [role |-> "user", kind |-> "text", text |-> text, blocks |-> <<>>]
AssistantTurn(content) ==
  [role |-> "assistant", kind |-> "blocks", text |-> <<>>, blocks |-> content]
ToolResultsTurn(results) ==
  [role |-> "user", kind |-> "blocks", text |-> <<>>, blocks |-> results]
AssistantTextTurn(text) ==
  [role |-> "assistant", kind |-> "text", text |-> text, blocks |-> <<>>]

\* ToolResultBlockParam; an absent is_error key is FALSE.
ToolResult(id, content, isError) ==
  [type |-> "tool_result", tool_use_id |-> id, content |-> content,
   is_error |-> isError]

\* Message values of the UI (types.ts).
UiUser(text) == [role |-> "user", text |-> text, blocks |-> <<>>]
UiAssistant(blocks) == [role |-> "assistant", text |-> <<>>, blocks |-> blocks]

\* A chat that was saved by an earlier turn, and the UI messages that go
\* with it.
PriorFile == <<UserTurn(<<"hello">>), AssistantTextTurn(<<"hi">>)>>
PriorUi ==
  << UiUser(<<"hello">>),
     UiAssistant(<<[type |-> "text", text |-> <<"hi">>, id |-> 0, name |-> "",
                    input |-> <<>>, apiIndex |-> -1,
                    isExecuting |-> "undefined", hasResult |-> FALSE,
                    result |-> <<>>, isError |-> "undefined"]>>) >>

chatId == "chat-1"

VARIABLES
  pc,                 \* where streamResponse stands
  messages,           \* ai.ts: the transcript sent to the model service
  stream,             \* events of the open model stream not yet delivered
  finalMessage,       \* content of the response being streamed
  toolUses,           \* invocations of the response not yet executed
  toolResultContents, \* results collected in this round
  running,            \* ids whose tool function was called and has not settled
  round,              \* number of model requests made in this turn
  nextId,             \* next unused tool invocation id
  events,             \* every event streamResponse has yielded, in order
  outcomes,           \* what each called tool function did, by invocation id
  uiMessages,         \* index.tsx: messages state
  contentBlocks,      \* index.tsx: contentBlocks of handleSubmit
  streamingBlocks,    \* index.tsx: streamingBlocks state
  isStreaming,        \* index.tsx: isStreaming state
  chatFile,           \* local-data.ts: messages of ~/.phi/chats/<chatId>.json
  writes,             \* saveChat calls whose Bun.write has not completed
  file,               \* edit-file.ts: the file at `path` on disk
  lastEdit,           \* the last call of editFileTool.run and what it did
  diff,               \* edit-file.ts: the last call of generateDiff
  bash,               \* bash.ts: the variables of one call of bashTool.run
  child,              \* bash.ts: the processes spawned for that call
  glob,               \* glob tool: the variables of one call of globTool.run
  grep,               \* grep.ts: the variables of one call of grepTool.run
  todo                \* todo.ts: the store, the active list and the last call

genVars ==
  <<pc, messages, stream, finalMessage, toolUses, toolResultContents, running,
    round, nextId, events, outcomes>>
uiVars == <<uiMessages, contentBlocks, streamingBlocks, isStreaming>>
fileVars == <<chatFile, writes>>
editVars == <<file, lastEdit>>
bashVars == <<bash, child>>
searchVars == <<glob, grep>>
toolVars == <<editVars, diff, bashVars, searchVars, todo>>
vars == <<genVars, uiVars, fileVars, toolVars>>

\* A file on disk: absent, or present with its content (a string, as the
\* sequence of its characters).
NoFile == [exists |-> FALSE, content |-> <<>>]
FileWith(content) == [exists |-> TRUE, content |-> content]

\* No call of editFileTool.run was made.
NoEdit ==
  [ran |-> FALSE, before |-> NoFile, old_string |-> <<>>, new_string |-> <<>>,
   io |-> "none", result |-> <<>>, wrote |-> FALSE, threw |-> FALSE]

\* No call of generateDiff was made.
NoDiff ==
  [ran |-> FALSE, oldContent |-> <<>>, newContent |-> <<>>,
   header |-> [oldStart |-> 0, oldCount |-> 0, newStart |-> 0, newCount |-> 0],
   body |-> <<>>]

InitChat ==
  /\ pc = "idle"
  /\ messages = <<>>
  /\ stream = <<>>
  /\ finalMessage = <<>>
  /\ toolUses = <<>>
  /\ toolResultContents = <<>>
  /\ running = {}
  /\ round = 0
  /\ nextId = 1
  /\ events = <<>>
  /\ outcomes = <<>>
  /\ \E resumed \in BOOLEAN :
       /\ uiMessages = IF resumed THEN PriorUi ELSE <<>>
       /\ chatFile = IF resumed THEN PriorFile ELSE <<>>
  /\ contentBlocks = <<>>
  /\ streamingBlocks = <<>>
  /\ isStreaming = FALSE
  /\ writes = {}

\* No tool is at work.
IdleEdit == file = NoFile /\ lastEdit = NoEdit
IdleDiff == diff = NoDiff

\* bash.ts 6, 9
MAX_OUTPUT_SIZE == 10 * 1024 * 1024
DEFAULT_TIMEOUT == 60

\* bashTool.run was not called and nothing was spawned.
NoBash ==
  [phase |-> "idle", timeout |-> DEFAULT_TIMEOUT, stdout |-> <<>>,
   stderr |-> <<>>, killed |-> FALSE, timer |-> "none", report |-> <<>>]
NoChild ==
  [shell |-> "none", code |-> 0, signal |-> "none", descendant |-> "none",
   wroteOut |-> <<>>, wroteErr |-> <<>>, runningAtExpiry |-> FALSE]
IdleBash == bash = NoBash /\ child = NoChild

\* globTool.run and grepTool.run were not called.
NoGlob ==
  [phase |-> "idle", includeHidden |-> FALSE, excludeDirs |-> {},
   maxResults |-> 0, scanned |-> 0, yielded |-> {}, results |-> <<>>,
   stopped |-> FALSE, output |-> <<>>]
NoGrep ==
  [phase |-> "idle", pattern |-> "", includeHidden |-> FALSE, maxResults |-> 0,
   filesSearched |-> 0, yielded |-> {}, results |-> <<>>,
   stopped |-> FALSE, output |-> <<>>]
IdleSearch == glob = NoGlob /\ grep = NoGrep

\* todo.ts 16-18: the store is empty and no list is active; no call of
\* todoTool.run has been made. The store is the sequence of the Map's
\* entries in insertion order; generated counts the calls of generateId.
NoCall ==
  [action |-> "", todoId |-> "undefined", title |-> "undefined",
   text |-> "undefined", itemId |-> "undefined", isError |-> FALSE,
   kind |-> "", shown |-> ""]
NoTodo ==
  [todoLists |-> <<>>, currentTodoId |-> "null", generated |-> 0, call |-> NoCall]
IdleTodo == todo = NoTodo

Init ==
  /\ InitChat
  /\ IdleEdit
  /\ IdleDiff
  /\ IdleBash
  /\ IdleSearch
  /\ IdleTodo

(***************************************************************************)
(* The consumer: handleSubmit of index.tsx                                 *)
(***************************************************************************)

\* A block object of contentBlocks. "undefined" stands for an absent optional
\* field, NoIndex for an absent apiIndex.
NoIndex == -1
UiBlock(b, k) ==
  [type |-> b.type, text |-> <<>>, id |-> b.id, name |-> b.name, input |-> <<>>,
   apiIndex |-> k, isExecuting |-> "undefined", hasResult |-> FALSE,
   result |-> <<>>, isError |-> "undefined"]

\* contentBlocks.findIndex(b => b.apiIndex === index): the first position
\* whose block carries that apiIndex, 0 if none.
FindByApiIndex(cb, index) ==
  IF \E i \in 1..Len(cb) : cb[i].apiIndex = index
  THEN CHOOSE i \in 1..Len(cb) :
         /\ cb[i].apiIndex = index
         /\ \A j \in 1..(i - 1) : cb[j].apiIndex # index
  ELSE 0

\* contentBlocks.find(b => b.type === "tool_use" && b.id === id), as a
\* position.
IsToolWithId(b, id) == b.type = "tool_use" /\ b.id = id
FindToolById(cb, id) ==
  IF \E i \in 1..Len(cb) : IsToolWithId(cb[i], id)
  THEN CHOOSE i \in 1..Len(cb) :
         /\ IsToolWithId(cb[i], id)
         /\ \A j \in 1..(i - 1) : ~IsToolWithId(cb[j], id)
  ELSE 0

\* JSON.parse of a tool-input document: it succeeds on a closed object.
JsonParses(doc) == Len(doc) >= 2 /\ doc[1] = "{" /\ doc[Len(doc)] = "}"
JsonValue(doc) == SubSeq(doc, 2, Len(doc) - 1)

\* contentBlocks.unshift(block): the new block goes in front.
OnBlockStartInFront(cb, e) ==
  IF e.content_block.type \in {"tool_use", "text"}
  THEN <<UiBlock(e.content_block, e.index)>> \o cb
  ELSE cb

\* contentBlocks after one event of the sequence (index.tsx 233-302).
OnBlockStart(cb, e) ==
  IF e.content_block.type \in {"tool_use", "text"}
  THEN Append(cb, UiBlock(e.content_block, e.index))
  ELSE cb

OnBlockDelta(cb, e) ==
  LET i == FindByApiIndex(cb, e.index)
  IN  IF e.delta_type = "text_delta"
      THEN IF i # 0 /\ cb[i].type = "text"
           THEN [cb EXCEPT ![i].text = @ \o e.delta]
           ELSE cb
      ELSE IF e.delta_type = "input_json_delta"
      THEN IF i # 0 /\ cb[i].type = "tool_use" /\ JsonParses(e.delta)
           THEN [cb EXCEPT ![i].input = JsonValue(e.delta)]
           ELSE cb
      ELSE cb

\* tool_execution_start left unhandled.
OnToolStartIgnored(cb, e) == cb

OnToolStart(cb, e) ==
  LET i == FindToolById(cb, e.tool_use_id)
  IN  IF i # 0 THEN [cb EXCEPT ![i].isExecuting = "true"] ELSE cb

OnToolEnd(cb, e) ==
  LET i == FindToolById(cb, e.tool_use_id)
  IN  IF i # 0
      THEN [cb EXCEPT ![i].isExecuting = "false", ![i].hasResult = TRUE,
                      ![i].result = e.result,
                      ![i].isError = IF e.is_error THEN "true" ELSE "false"]
      ELSE cb

ReduceBlocks(cb, e) ==
  CASE e.type = "content_block_start" -> OnBlockStart(cb, e)
    [] e.type = "content_block_delta" -> OnBlockDelta(cb, e)
    [] e.type = "tool_execution_start" -> OnToolStart(cb, e)
    [] e.type = "tool_execution_end" -> OnToolEnd(cb, e)
    [] OTHER -> cb

\* message_stop: the blocks without their apiIndex.
CleanedBlocks(cb) == [i \in 1..Len(cb) |-> [cb[i] EXCEPT !.apiIndex = NoIndex]]

\* Array.prototype.join("\n") over the texts of the text blocks.
RECURSIVE JoinTexts(_)
JoinTexts(blocks) ==
  IF blocks = <<>> THEN <<>>
  ELSE IF Head(blocks).type # "text" THEN JoinTexts(Tail(blocks))
  ELSE LET rest == JoinTexts(Tail(blocks))
       IN  IF \E i \in 1..Len(Tail(blocks)) : Tail(blocks)[i].type = "text"
           THEN Head(blocks).text \o <<"\n">> \o rest
           ELSE Head(blocks).text

\* paramsToSave of the message_stop handler (index.tsx 324-335).
ParamsToSave(updated) ==
  [i \in 1..Len(updated) |->
     IF updated[i].role = "user"
     THEN UserTurn(updated[i].text)
     ELSE AssistantTextTurn(JoinTexts(updated[i].blocks))]

\* Whether the loop body calls setStreamingBlocks([...contentBlocks]) for e:
\* it does wherever it found the block it was looking for.
SetsStreamingBlocks(cb, e) ==
  CASE e.type = "content_block_start" ->
         e.content_block.type \in {"tool_use", "text"}
    [] e.type = "content_block_delta" ->
         LET i == FindByApiIndex(cb, e.index)
         IN  /\ i # 0
             /\ \/ e.delta_type = "text_delta" /\ cb[i].type = "text"
                \/ e.delta_type = "input_json_delta" /\ cb[i].type = "tool_use"
    [] e.type \in {"tool_execution_start", "tool_execution_end"} ->
         FindToolById(cb, e.tool_use_id) # 0
    [] OTHER -> FALSE

\* The body of the for-await loop of handleSubmit for one event e. The
\* saveChat of the message_stop handler is called without await from a state
\* updater: its write lands later.
Consume(e) ==
  LET cb == ReduceBlocks(contentBlocks, e)
      updated == Append(uiMessages, UiAssistant(CleanedBlocks(cb)))
  IN  /\ contentBlocks' = cb
      /\ IF e.type = "message_stop"
         THEN /\ uiMessages' = updated
              /\ writes' = writes \cup {ParamsToSave(updated)}
              /\ streamingBlocks' = <<>>
              /\ isStreaming' = FALSE
         ELSE /\ streamingBlocks' =
                   IF SetsStreamingBlocks(contentBlocks, e) THEN cb
                   ELSE streamingBlocks
              /\ UNCHANGED <<uiMessages, isStreaming, writes>>

\* One yield of the generator: the caller receives e and runs its loop body
\* before it asks for the next event.
Yield(e) ==
  /\ events' = Append(events, e)
  /\ Consume(e)

(***************************************************************************)
(* The agent loop: streamResponse of ai.ts                                 *)
(***************************************************************************)

\* finalMessage.content.filter(block => block.type === "tool_use")
ToolUsesOf(content) == SelectSeq(content, LAMBDA b : b.type = "tool_use")

ToolExecutionStart(toolUse) ==
  [type |-> "tool_execution_start", tool_use_id |-> toolUse.id,
   tool_name |-> toolUse.name]
ToolExecutionEnd(toolUse, content, isError) ==
  [type |-> "tool_execution_end", tool_use_id |-> toolUse.id,
   result |-> content, is_error |-> isError]

\* What the registered tool functions hand back (edit-file.ts 97-139): the
\* report, or an expected failure recovered inside the tool; and the message
\* of the error a tool function throws.
ToolReport(outcome) ==
  IF outcome = "ok" THEN <<"File edited successfully.">>
  ELSE IF outcome = "echo" THEN <<"JSON.stringify(input)">>
  ELSE <<ErrorPrefix, "File not found: a.ts">>
ThrownMessage == <<"EACCES: permission denied">>

\* handleSubmit (index.tsx 118-119, 222-232) calls streamResponse, which
\* loads the chat and appends the prompt (ai.ts 25-32).
Submit ==
  /\ pc = "idle"
  /\ Prompt # <<>> /\ ~isStreaming
  /\ uiMessages' = Append(uiMessages, UiUser(Prompt))
  /\ isStreaming' = TRUE
  /\ streamingBlocks' = <<>>
  /\ contentBlocks' = <<>>
  /\ messages' = (IF chatId # "" THEN chatFile ELSE <<>>) \o <<UserTurn(Prompt)>>
  /\ pc' = "request"
  /\ UNCHANGED <<toolVars, stream, finalMessage, toolUses, toolResultContents, running,
                 round, nextId, events, outcomes, fileVars>>

\* ai.ts 36-50: open the stream of the next model response.
Request ==
  /\ pc = "request"
  /\ \E content \in Responses(round + 1, nextId) :
       /\ finalMessage' = content
       /\ stream' = StreamOf(round + 1, content)
       /\ nextId' = nextId + Len(ToolUsesOf(content))
  /\ round' = round + 1
  /\ pc' = "stream"
  /\ UNCHANGED <<toolVars, messages, toolUses, toolResultContents, running, events,
                 outcomes, uiVars, fileVars>>

\* The event rebuilt on the way, its delta payload lost.
RelayedEventWithoutDelta(e) == [e EXCEPT !.delta = <<>>]

\* ai.ts 54: yield event.
RelayedEvent(e) == e

\* ai.ts 52-55: relay the next event of the stream.
Relay ==
  /\ pc = "stream"
  /\ stream # <<>>
  /\ Yield(RelayedEvent(Head(stream)))
  /\ stream' = Tail(stream)
  /\ pc' = IF Tail(stream) = <<>> THEN "final" ELSE "stream"
  /\ UNCHANGED <<toolVars, messages, finalMessage, toolUses, toolResultContents, running,
                 round, nextId, outcomes, chatFile>>

\* The catch block without the finally block of index.tsx 375-377.
TransportFailureWithoutFinally ==
  /\ pc = "stream"
  /\ pc' = "failed"
  /\ stream' = <<>>
  /\ uiMessages' =
       Append(uiMessages,
              UiAssistant(<<[UiBlock(TextBlock(round), NoIndex)
                               EXCEPT !.text = <<ErrorPrefix, "stream failed">>]>>))
  /\ streamingBlocks' = <<>>
  /\ UNCHANGED <<toolVars, messages, finalMessage, toolUses, toolResultContents, running,
                 round, nextId, events, outcomes, contentBlocks, fileVars, isStreaming>>

\* The model stream fails: the for-await (ai.ts 53) throws, the generator
\* ends by the exception and handleSubmit's catch and finally run
\* (index.tsx 358-376).
TransportFailure ==
  /\ pc = "stream"
  /\ pc' = "failed"
  /\ stream' = <<>>
  /\ uiMessages' =
       Append(uiMessages,
              UiAssistant(<<[UiBlock(TextBlock(round), NoIndex)
                               EXCEPT !.text = <<ErrorPrefix, "stream failed">>]>>))
  /\ streamingBlocks' = <<>>
  /\ isStreaming' = FALSE
  /\ UNCHANGED <<toolVars, messages, finalMessage, toolUses, toolResultContents, running,
                 round, nextId, events, outcomes, contentBlocks, fileVars>>

\* ai.ts 74 without the break: the loop asks the model again.
ContinueLoop == "request"

\* ai.ts 74: break.
ExitLoop == "done"

\* ai.ts 58-75: a response without tool uses: save the chat and leave the
\* loop; the caller's for-await ends and its finally runs (index.tsx 374-376).
Finish ==
  /\ pc = "final"
  /\ ToolUsesOf(finalMessage) = <<>>
  /\ writes' = IF chatId # "" THEN writes \cup {messages} ELSE writes
  /\ pc' = ExitLoop
  /\ isStreaming' = FALSE
  /\ UNCHANGED <<toolVars, messages, stream, finalMessage, toolUses, toolResultContents,
                 running, round, nextId, events, outcomes, uiMessages,
                 contentBlocks, streamingBlocks, chatFile>>

\* ai.ts 58-85: a response with tool uses: append the assistant turn and
\* enter the for loop over toolUses.
BeginTools ==
  /\ pc = "final"
  /\ ToolUsesOf(finalMessage) # <<>>
  /\ messages' = Append(messages, AssistantTurn(finalMessage))
  /\ toolUses' = ToolUsesOf(finalMessage)
  /\ toolResultContents' = <<>>
  /\ pc' = "tool_start"
  /\ UNCHANGED <<toolVars, stream, finalMessage, running, round, nextId, events,
                 outcomes, uiVars, fileVars>>

\* ai.ts 86, 95: toolFn = toolMap[toolUse.name] is truthy.
IsRegistered(name) == PropertyOf(toolMap, name) # Undefined

\* ai.ts 99 and 132: the texts of the two synthesized error results.
UnknownToolContent(name) == <<ErrorPrefix, "Unknown tool ", name>>
\* The bare message, without the "Error: " in front.
ErrorContentBare(message) == message
ErrorContent(message) == <<ErrorPrefix>> \o message

\* toolResultContents.unshift(r): the results end up in reverse order.
PushResultInFront(results, r) == <<r>> \o results

\* toolResultContents.push(r)
PushResult(results, r) == Append(results, r)

\* The call of toolFn starts the tool; the await returns once it has settled.
CallTool(run, id) == run \cup {id}
\* toolFn(toolUse.input) without await: the loop goes on while the tool runs.
SettleToolNotAwaited(run, id) == run
SettleTool(run, id) == run \ {id}

\* break in place of continue: the first result ends the for-of loop.
AfterToolBreak(rest) == "tools_done"

\* No loop around the rounds: the generator returns after the last tool.
AfterToolReturn(rest) == IF rest = <<>> THEN "done" ELSE "tool_start"

\* The for-of loop over toolUses moves on, or ends.
AfterTool(rest) == IF rest = <<>> THEN "tools_done" ELSE "tool_start"

\* ai.ts 85-93: announce the next invocation.
ToolStart ==
  /\ pc = "tool_start"
  /\ toolUses # <<>>
  /\ Yield(ToolExecutionStart(Head(toolUses)))
  /\ pc' = "tool_dispatch"
  /\ UNCHANGED <<toolVars, messages, stream, finalMessage, toolUses, toolResultContents,
                 running, round, nextId, outcomes, chatFile>>

\* ai.ts 95-112: no function under that name.
UnknownTool ==
  LET toolUse == Head(toolUses)
      content == UnknownToolContent(toolUse.name)
  IN  /\ pc = "tool_dispatch"
      /\ ~IsRegistered(toolUse.name)
      /\ Yield(ToolExecutionEnd(toolUse, content, TRUE))
      /\ toolResultContents' =
           PushResult(toolResultContents, ToolResult(toolUse.id, content, TRUE))
      /\ toolUses' = Tail(toolUses)
      /\ pc' = AfterTool(Tail(toolUses))
      /\ UNCHANGED <<toolVars, messages, stream, finalMessage, running, round, nextId,
                     outcomes, chatFile>>

\* ai.ts 114-115: call the tool function and await it.
ToolCall ==
  /\ pc = "tool_dispatch"
  /\ IsRegistered(Head(toolUses).name)
  /\ running' = CallTool(running, Head(toolUses).id)
  /\ pc' = "tool_await"
  /\ UNCHANGED <<toolVars, messages, stream, finalMessage, toolUses, toolResultContents,
                 round, nextId, events, outcomes, uiVars, fileVars>>

\* ai.ts 115-147: the tool function settles; a returned string is reported
\* with is_error false, a thrown error is caught and reported with is_error
\* true.
ReturnedIsError(outcome) == FALSE
SettledContent(outcome) ==
  IF outcome = "throw" THEN ErrorContent(ThrownMessage) ELSE ToolReport(outcome)
SettledIsError(outcome) ==
  IF outcome = "throw" THEN TRUE ELSE ReturnedIsError(outcome)

ToolSettle ==
  /\ pc = "tool_await"
  /\ \E outcome \in OutcomesOf(Head(toolUses).name) :
       LET toolUse == Head(toolUses)
           content == SettledContent(outcome)
           isError == SettledIsError(outcome)
       IN  /\ running' = SettleTool(running, toolUse.id)
           /\ outcomes' = Append(outcomes, [id |-> toolUse.id, outcome |-> outcome])
           /\ Yield(ToolExecutionEnd(toolUse, content, isError))
           /\ toolResultContents' =
                PushResult(toolResultContents,
                           ToolResult(toolUse.id, content, isError))
           /\ toolUses' = Tail(toolUses)
           /\ pc' = AfterTool(Tail(toolUses))
           /\ UNCHANGED <<toolVars, messages, stream, finalMessage, round, nextId, chatFile>>

\* The results turn put in the place of the assistant turn instead of after it.
AppendToolResultsInPlace ==
  /\ pc = "tools_done"
  /\ messages' = [messages EXCEPT ![Len(messages)] = ToolResultsTurn(toolResultContents)]
  /\ pc' = "request"
  /\ UNCHANGED <<toolVars, stream, finalMessage, toolUses, toolResultContents, running,
                 round, nextId, events, outcomes, uiVars, fileVars>>

\* ai.ts 150-158: append the tool results as one user turn and loop.
AppendToolResults ==
  /\ pc = "tools_done"
  /\ messages' = Append(messages, ToolResultsTurn(toolResultContents))
  /\ pc' = "request"
  /\ UNCHANGED <<toolVars, stream, finalMessage, toolUses, toolResultContents, running,
                 round, nextId, events, outcomes, uiVars, fileVars>>

\* local-data.ts 70-73: the Bun.write of a pending saveChat completes.
WriteLands ==
  \E w \in writes :
    /\ chatFile' = w
    /\ writes' = writes \ {w}
    /\ UNCHANGED <<toolVars, genVars, uiVars>>

Next ==
  \/ Submit
  \/ Request
  \/ Relay
  \/ TransportFailure
  \/ Finish
  \/ BeginTools
  \/ ToolStart
  \/ UnknownTool
  \/ ToolCall
  \/ ToolSettle
  \/ AppendToolResults
  \/ WriteLands

Spec == Init /\ [][Next]_vars

\* The steps of handleSubmit and of the generator it drives. Execution is
\* single-threaded and cooperative: the consumer asks for the next event as
\* soon as it has handled the last one, so the generator is always resumed;
\* a model stream delivers its next event (or fails), and a tool call
\* settles.
LoopStep ==
  \/ Submit
  \/ Request
  \/ Relay
  \/ Finish
  \/ BeginTools
  \/ ToolStart
  \/ UnknownTool
  \/ ToolCall
  \/ ToolSettle
  \/ AppendToolResults

\* The generator and its consumer alone: whether and when a pending saveChat
\* completes has no influence on them (WriteLands leaves genVars and uiVars
\* unchanged, and no guard reads chatFile or writes after Submit).
LoopNext == LoopStep \/ TransportFailure

LoopSpec == Init /\ [][LoopNext]_vars

\* The loop when a response may also name a property that toolMap inherits.
RequestNamed ==
  /\ pc = "request"
  /\ \E content \in ResponsesNaming(RequestedNames \cup InheritedNames,
                                     round + 1, nextId) :
       /\ finalMessage' = content
       /\ stream' = StreamOf(round + 1, content)
       /\ nextId' = nextId + Len(ToolUsesOf(content))
  /\ round' = round + 1
  /\ pc' = "stream"
  /\ UNCHANGED <<toolVars, messages, toolUses, toolResultContents, running, events,
                 outcomes, uiVars, fileVars>>

DispatchNext ==
  \/ Submit
  \/ RequestNamed
  \/ Relay
  \/ TransportFailure
  \/ Finish
  \/ BeginTools
  \/ ToolStart
  \/ UnknownTool
  \/ ToolCall
  \/ ToolSettle
  \/ AppendToolResults

DispatchSpec == Init /\ [][DispatchNext]_vars

LoopFairSpec == LoopSpec /\ WF_vars(LoopStep)

\* ai.ts 67-68, local-data.ts 43-49: after a response without invocations the
\* generator reads the chat file again; the read or JSON.parse throws (the
\* file is being rewritten by the saveChat of index.tsx 337, which nothing
\* awaits). handleSubmit's catch and finally run (index.tsx 358-377).
GetChatFailure ==
  /\ pc = "final"
  /\ ToolUsesOf(finalMessage) = <<>>
  /\ chatId # ""
  /\ pc' = "failed"
  /\ uiMessages' =
       Append(uiMessages,
              UiAssistant(<<[UiBlock(TextBlock(round), NoIndex)
                               EXCEPT !.text = <<ErrorPrefix, "JSON Parse error">>]>>))
  /\ streamingBlocks' = <<>>
  /\ isStreaming' = FALSE
  /\ UNCHANGED <<toolVars, messages, stream, finalMessage, toolUses, toolResultContents,
                 running, round, nextId, events, outcomes, contentBlocks, fileVars>>

FailureNext == LoopNext \/ GetChatFailure

FailureSpec == Init /\ [][FailureNext]_vars

(***************************************************************************)
(* The agent loop under any model stream                                   *)
(*                                                                         *)
(* The same generator and consumer, with a model service that is free in   *)
(* what it streams: several content blocks of a response may be open at    *)
(* once, a block may get no delta or several, in any interleaving with the *)
(* deltas of other blocks, and a tool-input payload may be a partial       *)
(* document.                                                               *)
(***************************************************************************)

\* Bound: deltas the model service sends over one turn.
MaxDeltas == 3

\* The position keys (event.index) a response uses: its blocks are numbered
\* from 0.
BlockKeys == {0, 1}

\* The invocation ids the model service uses under this specification.
StreamToolIds == {1}

Word(n) == <<"one", "two", "three", "four", "five", "six">>[n]

\* The text of the n-th delta of block k of response r.
DeltaText(r, k, n) == <<Word(r), Word(k + 1), Word(n)>>

\* partial_json payloads: a document cut short, and two complete ones.
InputDocs ==
  { <<"{", "path:a.ts">>,
    <<"{", "path:a.ts", "}">>,
    <<"{", "old:x", "}">> }

\* The model events relayed so far for response r, and for its block k.
EventsOfResponse(r) ==
  SelectSeq(events, LAMBDA e :
    e.type \in {"message_start", "content_block_start", "content_block_delta",
                "content_block_stop", "message_stop"} /\ e.msg = r)
EventsOfBlock(r, k) == SelectSeq(EventsOfResponse(r), LAMBDA e : e.index = k)
DeltasOfBlock(r, k) ==
  SelectSeq(EventsOfBlock(r, k), LAMBDA e : e.type = "content_block_delta")
DeltasSent == SelectSeq(events, LAMBDA e : e.type = "content_block_delta")

\* The blocks of response r that were started and not yet stopped.
OpenKeys(r) ==
  {k \in BlockKeys :
     /\ \E i \in 1..Len(EventsOfBlock(r, k)) :
          EventsOfBlock(r, k)[i].type = "content_block_start"
     /\ \A i \in 1..Len(EventsOfBlock(r, k)) :
          EventsOfBlock(r, k)[i].type # "content_block_stop"}

\* The service has begun to close the blocks of response r.
Closing(r) ==
  \E i \in 1..Len(EventsOfResponse(r)) :
    EventsOfResponse(r)[i].type = "content_block_stop"

\* What the model service may send next in response r, of which `content`
\* was received so far: it starts another block or sends a delta for any
\* block it has started, and in the end closes the blocks in key order (the
\* consumer ignores content_block_stop) and the message.
NextStreamEvents(r, content) ==
  IF EventsOfResponse(r) = <<>>
  THEN {ModelEvent("message_start", r, -1, NoBlock, "", <<>>)}
  ELSE
    LET k == Len(content)
        starts ==
          IF k \in BlockKeys /\ ~Closing(r)
          THEN {ModelEvent("content_block_start", r, k,
                           [TextBlock(r) EXCEPT !.text = <<>>], "", <<>>)}
               \cup
               (IF nextId \in StreamToolIds
                THEN {ModelEvent("content_block_start", r, k,
                                 [ToolUseBlock(nextId, nm)
                                    EXCEPT !.input = <<>>], "", <<>>) :
                        nm \in RequestedNames}
                ELSE {})
          ELSE {}
        deltas ==
          UNION {
            IF Len(DeltasSent) >= MaxDeltas \/ Closing(r) THEN {}
            ELSE IF content[j + 1].type = "text"
            THEN {ModelEvent("content_block_delta", r, j, NoBlock, "text_delta",
                             DeltaText(r, j, Len(DeltasOfBlock(r, j)) + 1))}
            ELSE {ModelEvent("content_block_delta", r, j, NoBlock,
                             "input_json_delta", doc) : doc \in InputDocs}
            : j \in OpenKeys(r)}
        stops ==
          {ModelEvent("content_block_stop", r, j, NoBlock, "", <<>>) :
             j \in {i \in OpenKeys(r) : \A h \in OpenKeys(r) : i <= h}}
        stop ==
          IF OpenKeys(r) = {} /\ content # <<>>
          THEN {ModelEvent("message_stop", r, -1, NoBlock, "", <<>>)}
          ELSE {}
    IN  starts \cup deltas \cup stops \cup stop

\* The SDK's record of the response (stream.finalMessage(), ai.ts 58) after
\* event e.
Received(content, e) ==
  CASE e.type = "content_block_start" -> Append(content, e.content_block)
    [] e.type = "content_block_delta" /\ e.delta_type = "text_delta" ->
         [content EXCEPT ![e.index + 1].text = @ \o e.delta]
    [] e.type = "content_block_delta" /\ e.delta_type = "input_json_delta"
         /\ JsonParses(e.delta) ->
         [content EXCEPT ![e.index + 1].input = JsonValue(e.delta)]
    [] OTHER -> content

\* ai.ts 36-50: open the stream of the next model response.
RequestAny ==
  /\ pc = "request"
  /\ round' = round + 1
  /\ finalMessage' = <<>>
  /\ pc' = "stream"
  /\ UNCHANGED <<toolVars, messages, stream, toolUses, toolResultContents, running,
                 nextId, events, outcomes, uiVars, fileVars>>

\* ai.ts 52-55: the stream delivers its next event and the loop yields it.
RelayAny ==
  /\ pc = "stream"
  /\ \E e \in NextStreamEvents(round, finalMessage) :
       /\ Yield(RelayedEvent(e))
       /\ finalMessage' = Received(finalMessage, e)
       /\ nextId' = IF e.type = "content_block_start"
                       /\ e.content_block.type = "tool_use"
                    THEN nextId + 1 ELSE nextId
       /\ pc' = IF e.type = "message_stop" THEN "final" ELSE "stream"
  /\ UNCHANGED <<toolVars, messages, stream, toolUses, toolResultContents, running,
                 round, outcomes, chatFile>>

StreamNext ==
  \/ Submit
  \/ RequestAny
  \/ RelayAny
  \/ Finish
  \/ BeginTools
  \/ ToolStart
  \/ UnknownTool
  \/ ToolCall
  \/ ToolSettle
  \/ AppendToolResults

StreamSpec == Init /\ [][StreamNext]_vars

(***************************************************************************)
(* The edit_file tool: editFileTool.run of tools/edit-file.ts              *)
(***************************************************************************)

\* Bound: the length of the file's content before the edit.
MaxLen == 3

\* The characters of file contents and of the strings of an input.
Chars == {"a", "b", " "}
Contents == SeqUpTo(Chars, MaxLen)
InputStrings == SeqUpTo(Chars, 2)
EditPath == "a.ts"

\* Where file I/O fails during a call: nowhere, in file.text(), or in
\* Bun.write().
IoFailures == {"none", "read", "write"}

\* String.prototype.includes: t is a substring of s (the empty string is one
\* of every string).
Includes(s, t) ==
  \E i \in 1..(Len(s) - Len(t) + 1) : SubSeq(s, i, i + Len(t) - 1) = t

\* String.prototype.indexOf: the 0-based position of the first occurrence.
IndexOf(s, t) ==
  (CHOOSE i \in 1..(Len(s) - Len(t) + 1) :
     /\ SubSeq(s, i, i + Len(t) - 1) = t
     /\ \A h \in 1..(i - 1) : SubSeq(s, h, h + Len(t) - 1) # t) - 1

\* String.prototype.slice(from) and slice(from, to), 0-based.
SliceFrom(s, from) == SubSeq(s, from + 1, Len(s))
Slice(s, from, to) == SubSeq(s, from + 1, to)

\* The number of pieces of s.split(sep): with the empty separator the
\* characters of s; otherwise one more than the matches found by scanning
\* from the left and continuing behind each match.
RECURSIVE MatchesFrom(_, _, _)
MatchesFrom(s, sep, i) ==
  IF i + Len(sep) - 1 > Len(s) THEN 0
  ELSE IF SubSeq(s, i, i + Len(sep) - 1) = sep
       THEN 1 + MatchesFrom(s, sep, i + Len(sep))
       ELSE MatchesFrom(s, sep, i + 1)
SplitLength(s, sep) == IF sep = <<>> THEN Len(s) ELSE 1 + MatchesFrom(s, sep, 1)

\* String.prototype.trim
RECURSIVE TrimStart(_)
TrimStart(s) == IF s # <<>> /\ Head(s) = " " THEN TrimStart(Tail(s)) ELSE s
RECURSIVE TrimEnd(_)
TrimEnd(s) ==
  IF s # <<>> /\ s[Len(s)] = " " THEN TrimEnd(SubSeq(s, 1, Len(s) - 1)) ELSE s
Trim(s) == TrimEnd(TrimStart(s))

\* edit-file.ts 116: content.split(old_string).length - 1
Occurrences(content, old_string) == SplitLength(content, old_string) - 1

\* edit-file.ts 127-129 with the old string left in place.
ReplacedKeepingOld(content, old_string, new_string) ==
  LET idx == IndexOf(content, old_string)
  IN  Slice(content, 0, idx) \o new_string \o SliceFrom(content, idx)

\* edit-file.ts 127-129: the new content.
Replaced(content, old_string, new_string) ==
  LET idx == IndexOf(content, old_string)
  IN  Slice(content, 0, idx) \o new_string
        \o SliceFrom(content, idx + Len(old_string))

\* The check of 122 left out.
IsNoOpNever(old_string, new_string) == FALSE

\* edit-file.ts 122: old_string === new_string
IsNoOp(old_string, new_string) == old_string = new_string

\* The outcomes of the try block: a returned report, with the file as the
\* call leaves it, or a thrown error.
Returned(result, f, wrote) ==
  [threw |-> FALSE, message |-> <<>>, result |-> result, file |-> f,
   wrote |-> wrote]
Thrown(message, f) ==
  [threw |-> TRUE, message |-> message, result |-> <<>>, file |-> f,
   wrote |-> FALSE]

\* edit-file.ts 94-136: the try block. The diff that follows "File edited
\* successfully." in the report is left out of the result.
TryBlock(f, path, old_string, new_string, io) ==
  IF ~f.exists
  THEN Returned(<<ErrorPrefix, "File not found: ", path>>, f, FALSE)
  ELSE IF io = "read" THEN Thrown(ThrownMessage, f)
  ELSE
    LET content == f.content
    IN  IF ~Includes(content, old_string)
        THEN IF Includes(content, Trim(old_string))
             THEN Returned(<<ErrorPrefix,
                             "The exact string was not found, but a trimmed version was found.">>,
                           f, FALSE)
             ELSE Returned(<<ErrorPrefix, "String not found in file.">>, f, FALSE)
        ELSE IF Occurrences(content, old_string) > 1
        THEN Returned(<<ErrorPrefix, "Found ",
                        ToString(Occurrences(content, old_string)),
                        " occurrences of the string.">>, f, FALSE)
        ELSE IF IsNoOp(old_string, new_string)
        THEN Returned(<<ErrorPrefix,
                        "old_string and new_string are identical. No changes needed.">>,
                      f, FALSE)
        ELSE IF io = "write" THEN Thrown(ThrownMessage, f)
        ELSE Returned(<<"File edited successfully.">>,
                      FileWith(Replaced(content, old_string, new_string)), TRUE)

\* edit-file.ts 137-139: the catch turns a thrown error into a report.
Caught(r) ==
  IF r.threw
  THEN [r EXCEPT !.threw = FALSE,
                 !.result = <<"Error editing file: ">> \o r.message]
  ELSE r

\* edit-file.ts 90-140: run
EditFileRun(f, path, old_string, new_string, io) ==
  Caught(TryBlock(f, path, old_string, new_string, io))

\* The state in which edit_file is called: any file, or none, at the path.
EditInit ==
  /\ InitChat
  /\ file \in {NoFile} \cup {FileWith(c) : c \in Contents}
  /\ lastEdit = NoEdit
  /\ IdleDiff
  /\ IdleBash
  /\ IdleSearch
  /\ IdleTodo

\* One call of edit_file. What a call returns and writes depends on the file
\* and the input alone, so one call is followed per initial file.
RunEditFile ==
  /\ ~lastEdit.ran
  /\ \E old_string \in InputStrings, new_string \in InputStrings,
        io \in IoFailures :
       LET r == EditFileRun(file, EditPath, old_string, new_string, io)
       IN  /\ file' = r.file
           /\ lastEdit' =
                [ran |-> TRUE, before |-> file, old_string |-> old_string,
                 new_string |-> new_string, io |-> io, result |-> r.result,
                 wrote |-> r.wrote, threw |-> r.threw]
  /\ UNCHANGED <<genVars, uiVars, fileVars, todo, diff, bashVars, searchVars>>

EditNext == RunEditFile

EditSpec == EditInit /\ [][EditNext]_vars

(***************************************************************************)
(* generateDiff of tools/edit-file.ts                                      *)
(***************************************************************************)

\* Bound: the length of the contents generateDiff is called with.
MaxDiffLen == 6

\* The characters of these contents: a letter and the line break.
DiffChars == {"x", "\n"}
DiffContents == SeqUpTo(DiffChars, MaxDiffLen)

\* String.prototype.split("\n"): the lines of s; at least one, "" for the
\* empty string and after a final line break.
RECURSIVE SplitLines(_)
SplitLines(s) ==
  IF \A i \in 1..Len(s) : s[i] # "\n" THEN <<s>>
  ELSE LET n == CHOOSE i \in 1..Len(s) :
                  s[i] = "\n" /\ \A h \in 1..(i - 1) : s[h] # "\n"
       IN  <<SubSeq(s, 1, n - 1)>> \o SplitLines(SubSeq(s, n + 1, Len(s)))

\* edit-file.ts 27-34: the index (0-based) of the first line that differs.
RECURSIVE FirstDifference(_, _, _)
FirstDifference(oldLines, newLines, startIdx) ==
  IF startIdx < Len(oldLines) /\ startIdx < Len(newLines)
       /\ oldLines[startIdx + 1] = newLines[startIdx + 1]
  THEN FirstDifference(oldLines, newLines, startIdx + 1)
  ELSE startIdx

\* edit-file.ts 37-46: the indices of the last lines that differ, as the
\* pair <<oldEndIdx, newEndIdx>>.
RECURSIVE LastDifferenceUnbounded(_, _, _, _, _)
LastDifferenceUnbounded(oldLines, newLines, startIdx, oldEndIdx, newEndIdx) ==
  IF oldEndIdx > 0 /\ newEndIdx > 0
       /\ oldLines[oldEndIdx + 1] = newLines[newEndIdx + 1]
  THEN LastDifferenceUnbounded(oldLines, newLines, startIdx,
                               oldEndIdx - 1, newEndIdx - 1)
  ELSE <<oldEndIdx, newEndIdx>>

RECURSIVE LastDifference(_, _, _, _, _)
LastDifference(oldLines, newLines, startIdx, oldEndIdx, newEndIdx) ==
  IF oldEndIdx > startIdx /\ newEndIdx > startIdx
       /\ oldLines[oldEndIdx + 1] = newLines[newEndIdx + 1]
  THEN LastDifference(oldLines, newLines, startIdx, oldEndIdx - 1, newEndIdx - 1)
  ELSE <<oldEndIdx, newEndIdx>>

Max(a, b) == IF a >= b THEN a ELSE b
Min(a, b) == IF a <= b THEN a ELSE b

\* edit-file.ts 49
contextLines == 3

\* The lines lines[from..to-1]: the upper index taken as excluded.
TaggedExclusive(tag, lines, from, to) ==
  [i \in 1..Max(0, to - from) |-> [tag |-> tag, text |-> lines[from + i]]]

\* The lines lines[from..to] (0-based, both included), each under the tag.
Tagged(tag, lines, from, to) ==
  [i \in 1..Max(0, to - from + 1) |-> [tag |-> tag, text |-> lines[from + i]]]

\* edit-file.ts 18-80: the "@@ -a,b +c,d @@" header and the lines after it.
generateDiff(oldContent, newContent) ==
  LET oldLines == SplitLines(oldContent)
      newLines == SplitLines(newContent)
      startIdx == FirstDifference(oldLines, newLines, 0)
      ends == LastDifference(oldLines, newLines, startIdx,
                             Len(oldLines) - 1, Len(newLines) - 1)
      oldEndIdx == ends[1]
      newEndIdx == ends[2]
      contextStart == Max(0, startIdx - contextLines)
      oldContextEnd == Min(Len(oldLines) - 1, oldEndIdx + contextLines)
      newContextEnd == Min(Len(newLines) - 1, newEndIdx + contextLines)
      afterStart == oldEndIdx + 1
      afterEnd == Min(Len(oldLines), afterStart + contextLines)
  IN  [header |-> [oldStart |-> contextStart + 1,
                   oldCount |-> oldContextEnd - contextStart + 1,
                   newStart |-> contextStart + 1,
                   newCount |-> newContextEnd - contextStart + 1],
       body |-> Tagged(" ", oldLines, contextStart, startIdx - 1)
                  \o Tagged("-", oldLines, startIdx, oldEndIdx)
                  \o Tagged("+", newLines, startIdx, newEndIdx)
                  \o Tagged(" ", oldLines, afterStart, afterEnd - 1)]

\* edit-file.ts 135: generateDiff is called with the content before and
\* after an edit, which differ.
RunGenerateDiff ==
  /\ ~diff.ran
  /\ \E oldContent \in DiffContents, newContent \in DiffContents :
       /\ oldContent # newContent
       /\ LET d == generateDiff(oldContent, newContent)
          IN  diff' = [ran |-> TRUE, oldContent |-> oldContent,
                       newContent |-> newContent, header |-> d.header,
                       body |-> d.body]
  /\ UNCHANGED <<genVars, uiVars, fileVars, todo, editVars, bashVars, searchVars>>

DiffNext == RunGenerateDiff

DiffSpec == Init /\ [][DiffNext]_vars

(***************************************************************************)
(* The bash tool of tools/bash.ts                                          *)
(***************************************************************************)

\* Bound: the data chunks the processes of one command write.
MaxChunks == 3

\* The lengths of the chunks: one character, or as much as the cap.
ChunkSizes == {1, MAX_OUTPUT_SIZE}

\* The timeout input: left out (the default) or given.
Timeouts == {DEFAULT_TIMEOUT, 5}

\* What the command starts besides the shell itself: nothing, a process
\* that inherits the shell's stdout and stderr pipes ("attached"), or one
\* whose output is redirected elsewhere ("detached").
Descendants == {"none", "attached", "detached"}

\* The shell's own exit codes, and the signals other than the timer's kill.
ExitCodes == {0, 1}
OtherSignals == {"SIGTERM"}

\* string.length of the captured chunks.
RECURSIVE Length(_)
Length(chunks) ==
  IF chunks = <<>> THEN 0 ELSE Head(chunks) + Length(Tail(chunks))

\* bash.ts 67-72 and 75-80: a data handler.
OnDataUncapped(captured, chunk) == Append(captured, chunk)
OnData(captured, chunk) ==
  IF Length(captured) + chunk <= MAX_OUTPUT_SIZE
  THEN Append(captured, chunk)
  ELSE captured

\* The argument of the 'close' event: the exit code, null after a signal.
CloseCode(c) ==
  IF c.signal # "none" THEN [isNull |-> TRUE, value |-> 0]
  ELSE [isNull |-> FALSE, value |-> c.code]

\* bash.ts 85-110: the report, as its parts in order.
BuildOutput(killed, timeout, stdout, stderr, code) ==
  (IF killed THEN << [kind |-> "timed_out", value |-> timeout] >> ELSE <<>>)
    \o (IF stdout # <<>> THEN << [kind |-> "stdout", value |-> Length(stdout)] >>
        ELSE <<>>)
    \o (IF stderr # <<>> THEN << [kind |-> "stderr", value |-> Length(stderr)] >>
        ELSE <<>>)
    \o (IF ~killed /\ stdout = <<>> /\ stderr = <<>>
        THEN << [kind |-> "no_output", value |-> 0] >> ELSE <<>>)
    \o (IF code.value # 0 /\ ~code.isNull /\ ~killed
        THEN << [kind |-> "exit_code", value |-> code.value] >> ELSE <<>>)

\* bash.ts 42-64: run is called; the shell is spawned and the timer set.
BashRun ==
  /\ bash.phase = "idle"
  /\ \E timeout \in Timeouts, d \in Descendants :
       /\ bash' = [bash EXCEPT !.phase = "running", !.timeout = timeout,
                               !.timer = "armed"]
       /\ child' = [child EXCEPT !.shell = "running", !.descendant = d]
  /\ UNCHANGED <<genVars, uiVars, fileVars, todo, editVars, diff, searchVars>>

\* bash.ts 115-118: the 'error' event of a shell that could not be spawned.
SpawnError ==
  /\ bash.phase = "idle"
  /\ \E timeout \in Timeouts :
       bash' = [bash EXCEPT !.phase = "resolved", !.timeout = timeout,
                            !.timer = "cleared",
                            !.report = << [kind |-> "spawn_error", value |-> 0] >>]
  /\ UNCHANGED <<genVars, uiVars, fileVars, todo, editVars, diff, searchVars, child>>

\* bash.ts 67-72: a chunk arrives on stdout.
StdoutData ==
  /\ bash.phase = "running"
  /\ Len(child.wroteOut) + Len(child.wroteErr) < MaxChunks
  /\ \E chunk \in ChunkSizes :
       /\ child' = [child EXCEPT !.wroteOut = Append(@, chunk)]
       /\ bash' = [bash EXCEPT !.stdout = OnData(@, chunk)]
  /\ UNCHANGED <<genVars, uiVars, fileVars, todo, editVars, diff, searchVars>>

\* bash.ts 75-80: a chunk arrives on stderr.
StderrData ==
  /\ bash.phase = "running"
  /\ Len(child.wroteOut) + Len(child.wroteErr) < MaxChunks
  /\ \E chunk \in ChunkSizes :
       /\ child' = [child EXCEPT !.wroteErr = Append(@, chunk)]
       /\ bash' = [bash EXCEPT !.stderr = OnData(@, chunk)]
  /\ UNCHANGED <<genVars, uiVars, fileVars, todo, editVars, diff, searchVars>>

\* The shell ends by itself with an exit code.
ShellExits ==
  /\ child.shell = "running"
  /\ \E code \in ExitCodes :
       child' = [child EXCEPT !.shell = "exited", !.code = code]
  /\ UNCHANGED <<genVars, uiVars, fileVars, todo, editVars, diff, searchVars, bash>>

\* The shell is ended by a signal that is not the timer's.
ShellSignalled ==
  /\ child.shell = "running"
  /\ \E sig \in OtherSignals :
       child' = [child EXCEPT !.shell = "signalled", !.signal = sig]
  /\ UNCHANGED <<genVars, uiVars, fileVars, todo, editVars, diff, searchVars, bash>>

\* A process the command started ends.
DescendantExits ==
  /\ child.descendant \in {"attached", "detached"}
  /\ child' = [child EXCEPT !.descendant = "gone"]
  /\ UNCHANGED <<genVars, uiVars, fileVars, todo, editVars, diff, searchVars, bash>>

\* bash.ts 61-64: the timer fires; child.kill signals the shell's process
\* and no other.
TimerFires ==
  /\ bash.timer = "armed"
  /\ bash' = [bash EXCEPT !.killed = TRUE, !.timer = "fired"]
  /\ child' = IF child.shell = "running"
              THEN [child EXCEPT !.shell = "killed", !.signal = "SIGKILL",
                                 !.runningAtExpiry = TRUE]
              ELSE child
  /\ UNCHANGED <<genVars, uiVars, fileVars, todo, editVars, diff, searchVars>>

\* bash.ts 82-113: the 'close' event, once the shell has ended and nothing
\* holds its pipes; the report is built and the promise resolved.
Close ==
  /\ bash.phase = "running"
  /\ child.shell # "running"
  /\ child.descendant # "attached"
  /\ bash' = [bash EXCEPT !.phase = "resolved", !.timer = "cleared",
                          !.report = BuildOutput(bash.killed, bash.timeout,
                                                 bash.stdout, bash.stderr,
                                                 CloseCode(child))]
  /\ UNCHANGED <<genVars, uiVars, fileVars, todo, editVars, diff, searchVars, child>>

BashNext ==
  \/ BashRun
  \/ SpawnError
  \/ StdoutData
  \/ StderrData
  \/ ShellExits
  \/ ShellSignalled
  \/ DescendantExits
  \/ TimerFires
  \/ Close

BashSpec == Init /\ [][BashNext]_vars

(***************************************************************************)
(* The glob tool and the grep tool of tools/grep.ts                        *)
(***************************************************************************)

\* Bound: the files of the tree below that one scan yields.
MaxYielded == 3

\* A path is the sequence of its components (file.split("/")); a component
\* is the sequence of its pieces, a leading or inner "." being a piece.
Dot == "."
Name(n) == <<n>>
Dotted(n) == <<Dot, n>>
WithExt(n, e) == <<n, Dot, e>>

\* DEFAULT_EXCLUDED_DIRS of the glob tool and of grep.ts.
GLOB_DEFAULT_EXCLUDED_DIRS ==
  {<<"node_modules">>, <<".", "git">>, <<".", "svn">>, <<".", "hg">>,
   <<"dist">>, <<"build">>, <<"coverage">>, <<".", "cache">>,
   <<"__pycache__">>, <<".", "pytest_cache">>, <<"venv">>, <<".", "venv">>,
   <<"env">>, <<".", "env">>, <<".", "next">>, <<".", "nuxt">>, <<"vendor">>}
GREP_DEFAULT_EXCLUDED_DIRS ==
  {<<"node_modules">>, <<".", "git">>, <<".", "svn">>, <<".", "hg">>,
   <<"dist">>, <<"build">>, <<"coverage">>, <<".", "cache">>,
   <<"__pycache__">>, <<".", "pytest_cache">>, <<"venv">>, <<".", "venv">>,
   <<"env">>, <<".", "next">>, <<".", "nuxt">>, <<"vendor">>}

\* grep.ts 48-56
BINARY_EXTENSIONS ==
  {<<".", "png">>, <<".", "jpg">>, <<".", "jpeg">>, <<".", "gif">>,
   <<".", "webp">>, <<".", "ico">>, <<".", "bmp">>, <<".", "svg">>,
   <<".", "mp3">>, <<".", "mp4">>, <<".", "wav">>, <<".", "avi">>,
   <<".", "mov">>, <<".", "mkv">>, <<".", "zip">>, <<".", "tar">>,
   <<".", "gz">>, <<".", "rar">>, <<".", "7z">>, <<".", "pdf">>,
   <<".", "doc">>, <<".", "docx">>, <<".", "xls">>, <<".", "xlsx">>,
   <<".", "exe">>, <<".", "dll">>, <<".", "so">>, <<".", "dylib">>,
   <<".", "woff">>, <<".", "woff2">>, <<".", "ttf">>, <<".", "eot">>,
   <<".", "sqlite">>, <<".", "db">>}

\* glob: maxScan and the default of maxResults; grep.ts: maxFiles and the
\* default of maxResults.
maxScan == 10000
GlobDefaultMaxResults == 100
maxFiles == 1000
GrepDefaultMaxResults == 50

\* The files of the directory tree a scan may yield, with the modification
\* time stat reports and the positions <<line, column>> at which the
\* pattern matches, in the order regex.exec finds them.
File(path, mtime, matches) ==
  [path |-> path, mtime |-> mtime, matches |-> matches]
Files ==
  { File(<<WithExt("a", "ts")>>, 1, << <<1, 1>>, <<1, 5>> >>),
    File(<<WithExt("b", "ts")>>, 2, << <<2, 3>> >>),
    File(<<Name("src"), WithExt("c", "ts")>>, 2, << <<1, 2>> >>),
    File(<<Name("node_modules"), WithExt("m", "ts")>>, 3, << <<1, 1>> >>),
    File(<<Dotted("github"), WithExt("w", "ts")>>, 3, << <<1, 1>> >>),
    File(<<Dotted("env")>>, 3, << <<1, 1>> >>),
    File(<<Name("gen"), WithExt("g", "ts")>>, 3, << <<1, 1>> >>),
    File(<<WithExt("logo", "png")>>, 3, << <<1, 1>> >>) }

\* The inputs of a call.
Booleans == {TRUE, FALSE}
ExcludeDirsValues == {{}, {Name("gen")}}
GlobMaxResultsValues == {0, 1, 2, GlobDefaultMaxResults}
GrepMaxResultsValues == {0, 1, 2, GrepDefaultMaxResults}

\* The files in excluded directories or without a match that a scan comes
\* across in one run of loop iterations.
GlobBulk == maxScan - 1
GrepBulk == maxFiles - 1

\* pathParts.some((part) => allExcluded.has(part))
InExcludedDefaultsOnly(pathParts, allExcluded) ==
  \E i \in 1..Len(pathParts) : pathParts[i] \in GLOB_DEFAULT_EXCLUDED_DIRS
InExcluded(pathParts, allExcluded) ==
  \E i \in 1..Len(pathParts) : pathParts[i] \in allExcluded

\* pathParts.some((part) => part.startsWith("."))
StartsWithDot(part) == part # <<>> /\ Head(part) = Dot
IsHiddenFileName(pathParts) == StartsWithDot(pathParts[Len(pathParts)])
IsHidden(pathParts) ==
  \E i \in 1..Len(pathParts) : StartsWithDot(pathParts[i])

\* grep.ts 126-127: the text from the last "." of the path on is a binary
\* extension.  (A "." in a directory name with none in the file name gives
\* a text with "/", which is no extension of the set.)
IsBinary(pathParts) ==
  LET last == pathParts[Len(pathParts)]
      dots == {i \in 1..Len(last) : last[i] = Dot}
  IN  /\ dots # {}
      /\ LET d == CHOOSE i \in dots : \A j \in dots : j <= i
         IN  SubSeq(last, d, Len(last)) \in BINARY_EXTENSIONS

\* A part of the text a tool returns.
Part(kind, path, value, column) ==
  [kind |-> kind, path |-> path, value |-> value, column |-> column]

\* Array.prototype.sort with (a, b) => b.mtime - a.mtime: stable, by
\* modification time, latest first.
Unsorted(results) == results
RECURSIVE SortByMtime(_)
SortByMtime(results) ==
  IF results = <<>> THEN <<>>
  ELSE LET rest == SortByMtime(SubSeq(results, 1, Len(results) - 1))
           x == results[Len(results)]
           before == SelectSeq(rest, LAMBDA r : r.mtime >= x.mtime)
           after == SelectSeq(rest, LAMBDA r : r.mtime < x.mtime)
       IN  before \o <<x>> \o after

\* results.slice(0, maxResults) for maxResults >= 0
SliceTo(results, maxResults) ==
  SubSeq(results, 1, Min(Len(results), maxResults))

\* glob 114-139: the text returned once the scan is over.
GlobOutput(results, maxResults) ==
  IF results = <<>> THEN << Part("no_files", <<>>, 0, 0) >>
  ELSE LET limitedResults == SliceTo(SortByMtime(results), maxResults)
           over == Len(results) > maxResults
       IN  << Part("found", <<>>, Len(results), 0) >>
             \o (IF over THEN << Part("showing_first", <<>>, maxResults, 0) >>
                 ELSE <<>>)
             \o [i \in 1..Len(limitedResults) |->
                   Part("entry", limitedResults[i].path, i, 0)]
             \o (IF over
                 THEN << Part("more_not_shown", <<>>, Len(results) - maxResults, 0) >>
                 ELSE <<>>)

GlobReturns(g, scanned, yielded, results, stopped) ==
  [g EXCEPT !.phase = "returned", !.scanned = scanned, !.yielded = yielded,
            !.results = results, !.stopped = stopped,
            !.output = GlobOutput(results, g.maxResults)]

\* glob 59-78: run is called.
GlobRun ==
  /\ glob.phase = "idle" /\ grep.phase = "idle"
  /\ \E includeHidden \in Booleans, excludeDirs \in ExcludeDirsValues,
        maxResults \in GlobMaxResultsValues :
       glob' = [glob EXCEPT !.phase = "scanning",
                            !.includeHidden = includeHidden,
                            !.excludeDirs = excludeDirs,
                            !.maxResults = maxResults]
  /\ UNCHANGED <<genVars, uiVars, fileVars, todo, editVars, diff, bashVars, grep>>

\* glob 80-112: one iteration of the scan loop; the loop is left, and the
\* text returned, when the file was not skipped and maxScan is reached.
GlobScanFile ==
  /\ glob.phase = "scanning"
  /\ Cardinality(glob.yielded) < MaxYielded
  /\ \E f \in Files, statOk \in Booleans :
       /\ f.path \notin glob.yielded
       /\ LET scanned == glob.scanned + 1
              yielded == glob.yielded \cup {f.path}
              allExcluded == GLOB_DEFAULT_EXCLUDED_DIRS \cup glob.excludeDirs
              skipped == \/ InExcluded(f.path, allExcluded)
                         \/ ~glob.includeHidden /\ IsHidden(f.path)
              results == IF ~skipped /\ statOk
                         THEN Append(glob.results,
                                     [path |-> f.path, mtime |-> f.mtime])
                         ELSE glob.results
          IN  glob' = IF ~skipped /\ scanned >= maxScan
                      THEN GlobReturns(glob, scanned, yielded, results, TRUE)
                      ELSE [glob EXCEPT !.scanned = scanned,
                                        !.yielded = yielded,
                                        !.results = results]
  /\ UNCHANGED <<genVars, uiVars, fileVars, todo, editVars, diff, bashVars, grep>>

\* glob 85-90: the scan yields the files of an excluded directory one
\* after the other; each is counted and skipped.
GlobScanExcluded ==
  /\ glob.phase = "scanning"
  /\ glob.scanned < maxScan
  /\ glob' = [glob EXCEPT !.scanned = @ + GlobBulk]
  /\ UNCHANGED <<genVars, uiVars, fileVars, todo, editVars, diff, bashVars, grep>>

\* glob 114-139: the scan has yielded all its files.
GlobScanEnds ==
  /\ glob.phase = "scanning"
  /\ glob' = GlobReturns(glob, glob.scanned, glob.yielded, glob.results, FALSE)
  /\ UNCHANGED <<genVars, uiVars, fileVars, todo, editVars, diff, bashVars, grep>>

\* glob 140-142: the scan throws.
GlobScanThrows ==
  /\ glob.phase = "scanning"
  /\ glob' = [glob EXCEPT !.phase = "returned",
                          !.output = << Part("error", <<>>, 0, 0) >>]
  /\ UNCHANGED <<genVars, uiVars, fileVars, todo, editVars, diff, bashVars, grep>>

\* grep.ts 139-156: the matches of one file are pushed; the test of the cap
\* comes after each push and after each line.
\* grep.ts 139-153: what regex.exec returns for the lines of a file, as
\* <<line, column, length>> of each match. The pattern 'x' matches where the
\* file has an x; the pattern '^' matches the empty string at the start of a
\* line.
GrepPatterns == {"x", "^"}
ExecMatches(f, pattern) ==
  IF pattern = "^" THEN << <<1, 1, 0>> >>
  ELSE [i \in 1..Len(f.matches) |-> <<f.matches[i][1], f.matches[i][2], 1>>]

\* grep.ts 143-153: the while loop pushes what regex.exec returns until it
\* returns null or the results have reached maxResults. regex.exec sets
\* lastIndex to the end of the match: after a match of length zero lastIndex
\* is where it was and every further call returns the same match, which is
\* pushed until the cap ends the loop.
RECURSIVE PushUntilCap(_, _, _, _)
PushUntilCap(results, path, matches, maxResults) ==
  IF matches = <<>> THEN results
  ELSE LET result == [file |-> path, line |-> Head(matches)[1],
                      column |-> Head(matches)[2]]
           pushed == Append(results, result)
       IN  IF Len(pushed) >= maxResults THEN pushed
           ELSE IF Head(matches)[3] = 0
           THEN pushed \o [i \in 1..(maxResults - Len(pushed)) |-> result]
           ELSE PushUntilCap(pushed, path, Tail(matches), maxResults)
PushMatches(results, path, matches, maxResults) ==
  IF Len(results) >= maxResults
  THEN IF matches # <<>> /\ Head(matches)[1] = 1
       THEN Append(results, [file |-> path, line |-> Head(matches)[1],
                             column |-> Head(matches)[2]])
       ELSE results
  ELSE PushUntilCap(results, path, matches, maxResults)

\* grep.ts 172-185: the results grouped by file, files in the order of
\* their first result.
FirstSeen(results) ==
  LET first == {i \in 1..Len(results) :
                  \A h \in 1..(i - 1) : results[h].file # results[i].file}
  IN  [k \in 1..Cardinality(first) |->
         results[CHOOSE i \in first :
                   Cardinality({h \in first : h < i}) = k - 1].file]
RECURSIVE Grouped(_, _)
Grouped(results, files) ==
  IF files = <<>> THEN <<>>
  ELSE LET own == SelectSeq(results, LAMBDA r : r.file = Head(files))
       IN  << Part("file", Head(files), 0, 0) >>
             \o [i \in 1..Len(own) |->
                   Part("match", own[i].file, own[i].line, own[i].column)]
             \o Grouped(results, Tail(files))

\* grep.ts 164-191: the text returned once the scan is over.
GrepOutput(results, maxResults) ==
  IF results = <<>> THEN << Part("no_matches", <<>>, 0, 0) >>
  ELSE << Part(IF Len(results) >= maxResults THEN "found_or_more" ELSE "found",
               <<>>, Len(results), 0) >>
         \o Grouped(results, FirstSeen(results))
         \o (IF Len(results) >= maxResults
             THEN << Part("limited", <<>>, maxResults, 0) >> ELSE <<>>)

GrepReturns(g, filesSearched, yielded, results, stopped) ==
  [g EXCEPT !.phase = "returned", !.filesSearched = filesSearched,
            !.yielded = yielded, !.results = results, !.stopped = stopped,
            !.output = GrepOutput(results, g.maxResults)]

\* grep.ts 77-104: run is called.
GrepRun ==
  /\ grep.phase = "idle" /\ glob.phase = "idle"
  /\ \E pattern \in GrepPatterns, includeHidden \in Booleans,
        maxResults \in GrepMaxResultsValues :
       grep' = [grep EXCEPT !.phase = "scanning",
                            !.pattern = pattern,
                            !.includeHidden = includeHidden,
                            !.maxResults = maxResults]
  /\ UNCHANGED <<genVars, uiVars, fileVars, todo, editVars, diff, bashVars, glob>>

\* grep.ts 107-162: one iteration of the scan loop; the loop is left, and
\* the text returned, when maxFiles files were searched before or when the
\* results have reached maxResults.
GrepScanFile ==
  /\ grep.phase = "scanning"
  /\ Cardinality(grep.yielded) < MaxYielded
  /\ \E f \in Files, readOk \in Booleans :
       /\ f.path \notin grep.yielded
       /\ LET yielded == grep.yielded \cup {f.path}
              skipped == \/ InExcluded(f.path, GREP_DEFAULT_EXCLUDED_DIRS)
                         \/ ~grep.includeHidden /\ IsHidden(f.path)
                         \/ IsBinary(f.path)
              results == IF readOk
                         THEN PushMatches(grep.results, f.path,
                                          ExecMatches(f, grep.pattern),
                                          grep.maxResults)
                         ELSE grep.results
          IN  grep' =
                IF grep.filesSearched >= maxFiles
                THEN GrepReturns(grep, grep.filesSearched, yielded,
                                 grep.results, TRUE)
                ELSE IF skipped THEN [grep EXCEPT !.yielded = yielded]
                ELSE IF readOk /\ Len(results) >= grep.maxResults
                THEN GrepReturns(grep, grep.filesSearched + 1, yielded,
                                 results, FALSE)
                ELSE [grep EXCEPT !.filesSearched = @ + 1,
                                  !.yielded = yielded, !.results = results]
  /\ UNCHANGED <<genVars, uiVars, fileVars, todo, editVars, diff, bashVars, glob>>

\* grep.ts 112-156: the scan yields files without a match one after the
\* other; each is read and counted.
GrepScanUnmatched ==
  /\ grep.phase = "scanning"
  /\ grep.filesSearched + GrepBulk <= maxFiles
  /\ Len(grep.results) < grep.maxResults
  /\ grep' = [grep EXCEPT !.filesSearched = @ + GrepBulk]
  /\ UNCHANGED <<genVars, uiVars, fileVars, todo, editVars, diff, bashVars, glob>>

\* grep.ts 164-191: the scan has yielded all its files.
GrepScanEnds ==
  /\ grep.phase = "scanning"
  /\ grep' = GrepReturns(grep, grep.filesSearched, grep.yielded,
                         grep.results, FALSE)
  /\ UNCHANGED <<genVars, uiVars, fileVars, todo, editVars, diff, bashVars, glob>>

\* grep.ts 192-194: the scan throws.
GrepScanThrows ==
  /\ grep.phase = "scanning"
  /\ grep' = [grep EXCEPT !.phase = "returned",
                          !.output = << Part("error", <<>>, 0, 0) >>]
  /\ UNCHANGED <<genVars, uiVars, fileVars, todo, editVars, diff, bashVars, glob>>

SearchNext ==
  \/ GlobRun
  \/ GlobScanFile
  \/ GlobScanExcluded
  \/ GlobScanEnds
  \/ GlobScanThrows
  \/ GrepRun
  \/ GrepScanFile
  \/ GrepScanUnmatched
  \/ GrepScanEnds
  \/ GrepScanThrows

SearchSpec == Init /\ [][SearchNext]_vars

(***************************************************************************)
(* The todo tool                                                           *)
(***************************************************************************)

\* The number of ids generateId hands out in a run.
MaxIds == 3

\* todo.ts 21-23: the id of the call after n earlier calls (time in
\* milliseconds followed by random digits: a string no earlier call gave).
IdTable == <<"id1", "id2", "id3", "id4", "id5", "id6">>
generateId(n) == IdTable[n + 1]

\* The inputs of a call: an optional string is absent ("undefined"), empty
\* or not empty; a todoId names a list of the store or none, an itemId an
\* item of some list of the store or none. The members an action does not
\* read are absent.
TodoActions == {"create", "add", "complete", "uncomplete", "remove", "get", "list_all"}
TodoIdValues(t, action) ==
  IF action = "list_all" THEN {"undefined"}
  ELSE IF action = "create" THEN {"undefined", "nope"}
  ELSE {"undefined", "", "nope"} \cup {t.todoLists[k].id : k \in 1..Len(t.todoLists)}
TitleValues(action) == IF action = "create" THEN {"undefined", "", "T"} ELSE {"undefined"}
TextValues(action) == IF action = "add" THEN {"undefined", "", "t"} ELSE {"undefined"}
ItemIdValues(t, action) ==
  IF action \in {"complete", "uncomplete", "remove"}
  THEN {"undefined", "", "nope"}
         \cup UNION {{t.todoLists[k].items[i].id : i \in 1..Len(t.todoLists[k].items)} :
                       k \in 1..Len(t.todoLists)}
  ELSE {"undefined"}

\* JavaScript's !v for a string, undefined or null, and a || b.
Falsy(v) == v \in {"undefined", "null", ""}
OrElse(a, b) == IF Falsy(a) THEN b ELSE a

\* todo.ts 67, 94, 119, 141: the id of the list a call works on.
ListIdActiveFirst(t, input) == OrElse(t.currentTodoId, input.todoId)
ListId(t, input) == OrElse(input.todoId, t.currentTodoId)

\* Map.get as the position of the entry (0: undefined), Array.findIndex
\* (1-based here, NoIndex: -1) and Array.splice(itemIndex, 1).
MapGet(todoLists, listId) ==
  IF \E k \in 1..Len(todoLists) : todoLists[k].id = listId
  THEN CHOOSE k \in 1..Len(todoLists) : todoLists[k].id = listId
  ELSE 0
FindIndex(items, itemId) ==
  IF \E i \in 1..Len(items) : items[i].id = itemId
  THEN CHOOSE i \in 1..Len(items) :
         items[i].id = itemId /\ \A h \in 1..(i - 1) : items[h].id # itemId
  ELSE NoIndex
SpliceToEnd(items, itemIndex) == SubSeq(items, 1, itemIndex - 1)
Splice(items, itemIndex) ==
  SubSeq(items, 1, itemIndex - 1) \o SubSeq(items, itemIndex + 1, Len(items))

\* What a call leaves and returns: the store, the pointer, whether the text
\* starts with 'Error:', which of the texts it is, and the id of the list
\* the text shows.
Returns(t, isError, kind, shown) ==
  [todoLists |-> t.todoLists, currentTodoId |-> t.currentTodoId,
   generated |-> t.generated, isError |-> isError, kind |-> kind,
   shown |-> shown]

\* todo.ts 45-60
CaseCreate(t, input) ==
  IF Falsy(input.title) THEN Returns(t, TRUE, "title_required", "")
  ELSE LET newTodoList == [id |-> generateId(t.generated), title |-> input.title,
                           items |-> <<>>]
       IN  [Returns(t, FALSE, "created", newTodoList.id) EXCEPT
              !.todoLists = Append(t.todoLists, newTodoList),
              !.currentTodoId = newTodoList.id,
              !.generated = t.generated + 1]

\* todo.ts 62-86
CaseAdd(t, input) ==
  LET listId == ListId(t, input)
      k == MapGet(t.todoLists, listId)
      newItem == [id |-> generateId(t.generated), text |-> input.text,
                  completed |-> FALSE]
  IN  IF Falsy(input.text) THEN Returns(t, TRUE, "text_required", "")
      ELSE IF Falsy(listId) THEN Returns(t, TRUE, "no_list", "")
      ELSE IF k = 0 THEN Returns(t, TRUE, "list_not_found", "")
      ELSE [Returns(t, FALSE, "added", listId) EXCEPT
              !.todoLists[k].items = Append(@, newItem),
              !.generated = t.generated + 1]

\* todo.ts 88-112
CaseComplete(t, input) ==
  LET listId == ListId(t, input)
      k == MapGet(t.todoLists, listId)
      i == FindIndex(t.todoLists[k].items, input.itemId)
  IN  IF Falsy(input.itemId) THEN Returns(t, TRUE, "itemId_required", "")
      ELSE IF Falsy(listId) THEN Returns(t, TRUE, "no_list", "")
      ELSE IF k = 0 THEN Returns(t, TRUE, "list_not_found", "")
      ELSE IF i = NoIndex THEN Returns(t, TRUE, "item_not_found", "")
      ELSE [Returns(t, FALSE, "marked", listId) EXCEPT
              !.todoLists[k].items[i].completed = (input.action = "complete")]

\* todo.ts 114-138
CaseRemove(t, input) ==
  LET listId == ListId(t, input)
      k == MapGet(t.todoLists, listId)
      itemIndex == FindIndex(t.todoLists[k].items, input.itemId)
  IN  IF Falsy(input.itemId) THEN Returns(t, TRUE, "itemId_required", "")
      ELSE IF Falsy(listId) THEN Returns(t, TRUE, "no_list", "")
      ELSE IF k = 0 THEN Returns(t, TRUE, "list_not_found", "")
      ELSE IF itemIndex = NoIndex THEN Returns(t, TRUE, "item_not_found", "")
      ELSE [Returns(t, FALSE, "removed", listId) EXCEPT
              !.todoLists[k].items = Splice(@, itemIndex)]

\* todo.ts 140-152
CaseGet(t, input) ==
  LET listId == ListId(t, input)
  IN  IF Falsy(listId) THEN Returns(t, FALSE, "no_list_found", "")
      ELSE IF MapGet(t.todoLists, listId) = 0
      THEN Returns(t, TRUE, "list_not_found", "")
      ELSE Returns(t, FALSE, "formatted", listId)

\* todo.ts 154-169
CaseListAll(t, input) ==
  IF t.todoLists = <<>> THEN Returns(t, FALSE, "no_lists", "")
  ELSE Returns(t, FALSE, "listed", "")

\* todo.ts 40-177: the switch over the action.
todoRun(t, input) ==
  IF input.action = "create" THEN CaseCreate(t, input)
  ELSE IF input.action = "add" THEN CaseAdd(t, input)
  ELSE IF input.action \in {"complete", "uncomplete"} THEN CaseComplete(t, input)
  ELSE IF input.action = "remove" THEN CaseRemove(t, input)
  ELSE IF input.action = "get" THEN CaseGet(t, input)
  ELSE IF input.action = "list_all" THEN CaseListAll(t, input)
  ELSE Returns(t, TRUE, "unknown_action", "")

InputOf(call) ==
  [action |-> call.action, todoId |-> call.todoId, title |-> call.title,
   text |-> call.text, itemId |-> call.itemId]

\* One call of todoTool.run; the store lives as long as the process.
RunTodo ==
  /\ \E action \in TodoActions :
     \E todoId \in TodoIdValues(todo, action), title \in TitleValues(action), text \in TextValues(action),
        itemId \in ItemIdValues(todo, action) :
       LET input == [action |-> action, todoId |-> todoId, title |-> title,
                     text |-> text, itemId |-> itemId]
       IN  \E r \in {todoRun(todo, input)} :
             /\ r.generated <= MaxIds
             /\ todo' = [todoLists |-> r.todoLists,
                         currentTodoId |-> r.currentTodoId,
                         generated |-> r.generated,
                         call |-> input @@ [isError |-> r.isError, kind |-> r.kind,
                                            shown |-> r.shown]]
  /\ UNCHANGED <<genVars, uiVars, fileVars, editVars, diff, bashVars, searchVars>>

TodoNext == RunTodo

TodoSpec == Init /\ [][TodoNext]_vars

(***************************************************************************)
(* Properties of the agent loop                                            *)
(***************************************************************************)

IsModelEvent(e) ==
  e.type \in {"message_start", "content_block_start", "content_block_delta",
              "content_block_stop", "message_stop"}
IsToolEvent(e) == e.type \in {"tool_execution_start", "tool_execution_end"}

\* The events yielded after the last relayed model event.
LastModelIndex ==
  IF \E i \in 1..Len(events) : IsModelEvent(events[i])
  THEN CHOOSE i \in 1..Len(events) :
         /\ IsModelEvent(events[i])
         /\ \A j \in (i + 1)..Len(events) : ~IsModelEvent(events[j])
  ELSE 0
ToolEventsOfRound == SubSeq(events, LastModelIndex + 1, Len(events))

\* The tool rounds completed so far, counted in the transcript.
ToolResultTurns ==
  {i \in 1..Len(messages) : messages[i].role = "user" /\ messages[i].kind = "blocks"}

\* C1: when the loop is about to request the next model response after a
\* response with N >= 1 tool invocations, it has yielded, since the response's
\* last stream event, exactly N tool_execution_start/tool_execution_end
\* pairs, one per invocation and in invocation order, and the transcript ends
\* with that response's assistant turn followed by exactly one user turn that
\* holds the N results in the same order, under the invocations' ids and with
\* the result and flag that were announced.
C1_PairsThenOneResultTurn ==
  (pc = "request" /\ round >= 1) =>
    LET uses == ToolUsesOf(finalMessage)
        N == Len(uses)
        n == Len(messages)
        tev == ToolEventsOfRound
    IN  /\ N >= 1
        /\ Len(tev) = 2 * N
        /\ \A k \in 1..N :
             /\ tev[2 * k - 1] = ToolExecutionStart(uses[k])
             /\ tev[2 * k].type = "tool_execution_end"
             /\ tev[2 * k].tool_use_id = uses[k].id
        /\ n >= 2
        /\ messages[n - 1] = AssistantTurn(finalMessage)
        /\ messages[n].role = "user" /\ messages[n].kind = "blocks"
        /\ Len(messages[n].blocks) = N
        /\ \A k \in 1..N :
             /\ messages[n].blocks[k].type = "tool_result"
             /\ messages[n].blocks[k].tool_use_id = uses[k].id
             /\ messages[n].blocks[k].content = tev[2 * k].result
             /\ messages[n].blocks[k].is_error = tev[2 * k].is_error
        /\ Cardinality(ToolResultTurns) = round

\* A response with two invocations under different names has been executed
\* and answered.
C1_Witness ==
  /\ pc = "request"
  /\ round >= 1
  /\ Len(ToolUsesOf(finalMessage)) = 2
  /\ ToolUsesOf(finalMessage)[1].name # ToolUsesOf(finalMessage)[2].name

\* C2: the tool invocations of a response run strictly one at a time. At most
\* one tool function is running; a tool function runs only between its own
\* tool_execution_start and tool_execution_end, so that while it runs the last
\* event yielded is its own start; and when a tool_execution_start is
\* yielded, every invocation announced before it has already been ended.
C2_OneToolAtATime ==
  /\ Cardinality(running) <= 1
  /\ \A id \in running :
       /\ events # <<>>
       /\ events[Len(events)].type = "tool_execution_start"
       /\ events[Len(events)].tool_use_id = id
  /\ \A q \in 1..Len(events) :
       events[q].type = "tool_execution_start" =>
         \A p \in 1..(q - 1) :
           events[p].type = "tool_execution_start" =>
             \E e \in (p + 1)..(q - 1) :
               /\ events[e].type = "tool_execution_end"
               /\ events[e].tool_use_id = events[p].tool_use_id

\* The second invocation of a response is running, after the first one was
\* run and has settled.
C2_Witness ==
  /\ running # {}
  /\ toolResultContents # <<>>
  /\ outcomes # <<>>
  /\ \E o \in 1..Len(outcomes) : outcomes[o].id = toolResultContents[1].tool_use_id

HasNoToolUse(content) == \A i \in 1..Len(content) : content[i].type # "tool_use"

\* C3: a response without tool invocations ends the loop in that very round:
\* the step the loop takes once such a response is complete ends the event
\* sequence without a further event and without a further model request, and
\* after the end no event is yielded and no request is made.
C3_ToolFreeResponseEndsLoop ==
  [][ /\ (pc = "final" /\ HasNoToolUse(finalMessage)) =>
          (pc' = "done" /\ events' = events /\ round' = round)
      /\ pc = "done" => (pc' = "done" /\ events' = events /\ round' = round)
      /\ pc' = "done" =>
          (events'[Len(events')].type = "message_stop"
             /\ events'[Len(events')].msg = round') ]_genVars

\* The loop has ended after a tool round and a tool-free response.
C3_Witness ==
  /\ pc = "done"
  /\ round = 2
  /\ HasNoToolUse(finalMessage)

\* C4: when the loop stops after a response without tool invocations, the
\* transcript it has handed to saveChat ends with that response's assistant
\* turn.
C4_FinalAssistantTurnSaved ==
  [][ (pc = "final" /\ HasNoToolUse(finalMessage) /\ pc' = "done") =>
        \E w \in writes' \ writes :
          /\ w # <<>>
          /\ w[Len(w)].role = "assistant"
          /\ w[Len(w)] \in {AssistantTurn(finalMessage),
                             AssistantTextTurn(JoinTexts(finalMessage))} ]_vars

\* Every tool result the loop has recorded: those of the round in progress
\* and those of the tool-result turns of the transcript.
RecordedResults ==
  {toolResultContents[i] : i \in 1..Len(toolResultContents)}
  \cup UNION {{messages[i].blocks[k] : k \in 1..Len(messages[i].blocks)} :
              i \in ToolResultTurns}

\* The response (by its number in the turn) that holds invocation id, from
\* the relayed content_block_start event.
StartsInvocation(e, id) ==
  e.type = "content_block_start" /\ e.content_block.type = "tool_use"
    /\ e.content_block.id = id
RoundOfInvocation(id) ==
  events[CHOOSE i \in 1..Len(events) : StartsInvocation(events[i], id)].msg
IsInvocationOfRound(id, r) ==
  \E i \in 1..Len(events) : StartsInvocation(events[i], id) /\ events[i].msg = r

\* The loop goes on after the tool_execution_end at position p of events:
\* the next event, if any, announces the next invocation of the same
\* response, or, after the last invocation, opens the next response; and as
\* long as no event has followed, the loop stands at a point from which it
\* does that.
LoopGoesOnAfter(p) ==
  LET id == events[p].tool_use_id
      r == RoundOfInvocation(id)
      more == IsInvocationOfRound(id + 1, r)
  IN  IF p < Len(events)
      THEN IF more
           THEN /\ events[p + 1].type = "tool_execution_start"
                /\ events[p + 1].tool_use_id = id + 1
           ELSE /\ events[p + 1].type = "message_start"
                /\ events[p + 1].msg = r + 1
      ELSE IF more
           THEN pc = "tool_start" /\ toolUses # <<>> /\ toolUses[1].id = id + 1
           ELSE \/ pc \in {"tools_done", "request"} /\ toolUses = <<>> /\ round = r
                \/ pc \in {"stream", "failed"} /\ round = r + 1

EndPosition(id) ==
  IF \E p \in 1..Len(events) :
       events[p].type = "tool_execution_end" /\ events[p].tool_use_id = id
  THEN CHOOSE p \in 1..Len(events) :
         events[p].type = "tool_execution_end" /\ events[p].tool_use_id = id
  ELSE 0

\* C6: when a tool function throws, the loop catches the error: the
\* invocation is ended by a tool_execution_end with is_error = TRUE and a
\* result that is "Error: " followed by the error's message, the result
\* recorded for the transcript is that text, flagged, and the loop goes on
\* with the remaining invocations and the next model round; the sequence is
\* never ended by the tool's exception.
C6_ThrownToolErrorIsCaught ==
  \A o \in 1..Len(outcomes) :
    outcomes[o].outcome = "throw" =>
      LET id == outcomes[o].id
          p == EndPosition(id)
      IN  /\ p > 1
          /\ events[p - 1].type = "tool_execution_start"
          /\ events[p - 1].tool_use_id = id
          /\ events[p].is_error
          /\ Head(events[p].result) = "Error: "
          /\ Tail(events[p].result) = ThrownMessage
          /\ \E res \in RecordedResults :
               res.tool_use_id = id /\ res.content = events[p].result
                 /\ res.is_error
          /\ \A res \in RecordedResults :
               res.tool_use_id = id =>
                 (res.content = events[p].result /\ res.is_error)
          /\ LoopGoesOnAfter(p)

\* The first invocation of a response threw, the one after it was executed,
\* and the next response is being streamed.
C6_Witness ==
  /\ pc = "stream"
  /\ round = 2
  /\ Len(outcomes) > 0
  /\ outcomes[1].outcome = "throw"
  /\ EndPosition(outcomes[1].id) > 0
  /\ EndPosition(outcomes[1].id) + 1 < Len(events)
  /\ events[EndPosition(outcomes[1].id) + 1].type = "tool_execution_start"

\* C7: when a tool recovers an expected failure and returns its "Error: ..."
\* report, the result delivered for the invocation is error-flagged: the
\* tool_execution_end event has is_error = TRUE and so has the tool result
\* recorded for the transcript.
C7_ExpectedFailureIsFlagged ==
  \A o \in 1..Len(outcomes) :
    outcomes[o].outcome = "expected_failure" =>
      LET id == outcomes[o].id
          p == EndPosition(id)
      IN  /\ p > 0
          /\ Head(events[p].result) = "Error: "
          /\ events[p].is_error
          /\ \A res \in RecordedResults : res.tool_use_id = id => res.is_error

IsPrefix(a, b) == Len(a) <= Len(b) /\ SubSeq(b, 1, Len(a)) = a

\* C8: when the model stream fails, in whatever round, the failure reaches
\* the caller of streamResponse (handleSubmit reports it) and the transcript
\* accumulated up to that point is preserved: the chat file holds it, or a
\* saveChat that is under way is writing it.
C8_TranscriptPreservedOnFailure ==
  pc = "failed" =>
    /\ uiMessages # <<>>
    /\ uiMessages[Len(uiMessages)].role = "assistant"
    /\ Head(uiMessages[Len(uiMessages)].blocks[1].text) = "Error: "
    /\ \E saved \in {chatFile} \cup writes : IsPrefix(messages, saved)

Terminated == pc \in {"done", "failed"}

\* C9: the event sequence is finite. With every model stream ending, every
\* tool call settling and the model service coming to a response without
\* tool invocations, the generator terminates; it ends normally only on a
\* complete response without tool invocations and otherwise only by a
\* failure of an open model stream; and a complete response with tool
\* invocations always leads to the tools and then to another request,
\* whatever the number of rounds already made.
C9_TerminatesOnlyOnToolFreeResponse ==
  /\ <>Terminated
  /\ [][ /\ (pc' = "done" /\ pc # "done") =>
             (pc = "final" /\ HasNoToolUse(finalMessage))
         /\ (pc' = "failed" /\ pc # "failed") => pc = "stream"
         /\ Terminated => pc' = pc
         /\ (pc = "final" /\ ~HasNoToolUse(finalMessage)) => pc' = "tool_start"
         /\ pc = "tools_done" => (pc' = "request" /\ round' = round)
         /\ pc = "request" => (pc' = "stream" /\ round' = round + 1) ]_genVars

\* The generator has ended normally after as many tool rounds as the model
\* service asked for.
C9_Witness ==
  /\ pc = "done"
  /\ round = MaxInvocations + 1

\* The stream events of response r relayed among the first n events.
ModelEventsOfRound(r, n) ==
  SelectSeq(SubSeq(events, 1, n), LAMBDA e : IsModelEvent(e) /\ e.msg = r)

\* The assistant turns this turn has appended to the transcript: the
\* responses with tool invocations, in order.
AssistantBlockTurns ==
  SelectSeq(messages, LAMBDA m : m.role = "assistant" /\ m.kind = "blocks")

\* C10: each round's stream events are yielded unmodified and in stream
\* order; all of them, message_stop included, have been yielded before the
\* round's first tool_execution_start; and no stream event of a later
\* response is yielded before the last tool_execution_end of the round.
C10_StreamRelayedInOrder ==
  /\ (round >= 1 /\ pc # "failed") =>
       ModelEventsOfRound(round, Len(events)) \o stream
         = StreamOf(round, finalMessage)
  /\ (round >= 1 /\ pc = "failed") =>
       IsPrefix(ModelEventsOfRound(round, Len(events)),
                StreamOf(round, finalMessage))
  /\ \A r \in 1..Len(AssistantBlockTurns) :
       ModelEventsOfRound(r, Len(events)) = StreamOf(r, AssistantBlockTurns[r].blocks)
  /\ \A q \in 1..Len(events) :
       IsToolEvent(events[q]) =>
         LET r == RoundOfInvocation(events[q].tool_use_id)
         IN  /\ r <= Len(AssistantBlockTurns)
             /\ ModelEventsOfRound(r, q - 1) = StreamOf(r, AssistantBlockTurns[r].blocks)
             /\ \A p \in 1..Len(events) :
                  IsModelEvent(events[p]) =>
                    IF p < q THEN events[p].msg <= r ELSE events[p].msg > r
  /\ \A p, q \in 1..Len(events) :
       (p < q /\ IsModelEvent(events[p]) /\ IsModelEvent(events[q])) =>
         events[p].msg <= events[q].msg

\* The second response is being relayed after a round of two tools.
C10_Witness ==
  /\ pc = "stream"
  /\ round = 2
  /\ stream # <<>>
  /\ Len(ModelEventsOfRound(2, Len(events))) >= 2
  /\ Len(toolResultContents) = 2

(***************************************************************************)
(* Properties of the streaming reducer of handleSubmit                     *)
(***************************************************************************)

\* The content_block_start events yielded so far: one per allocated block.
StartEvents == SelectSeq(events, LAMBDA e : e.type = "content_block_start")

\* The position in contentBlocks of the block that was started with key k in
\* response r: blocks are allocated in the order of their start events.
PositionOf(r, k) ==
  CHOOSE j \in 1..Len(StartEvents) :
    StartEvents[j].msg = r /\ StartEvents[j].index = k

RECURSIVE ConcatDeltas(_)
ConcatDeltas(ds) ==
  IF ds = <<>> THEN <<>> ELSE Head(ds).delta \o ConcatDeltas(Tail(ds))

\* The value of the last payload of ds that parses, <<>> (the empty object)
\* if none does.
RECURSIVE LastParsed(_)
LastParsed(ds) ==
  IF ds = <<>> THEN <<>>
  ELSE IF JsonParses(ds[Len(ds)].delta) THEN JsonValue(ds[Len(ds)].delta)
  ELSE LastParsed(SubSeq(ds, 1, Len(ds) - 1))

\* The deltas sent for the block at position j of contentBlocks.
OwnDeltas(j) == DeltasOfBlock(StartEvents[j].msg, StartEvents[j].index)

\* C11: whatever the interleaving of the text deltas of the open blocks of a
\* response, the text of each text block is the concatenation of exactly the
\* deltas sent for that block, in the order they were sent.
C11_TextIsOwnDeltasInOrder ==
  \A j \in 1..Len(contentBlocks) :
    (j <= Len(StartEvents) /\ contentBlocks[j].type = "text") =>
      contentBlocks[j].text = ConcatDeltas(OwnDeltas(j))

\* Within the first response of a turn the statement of C11 does hold.
FirstResponseTextIsOwnDeltas ==
  \A j \in 1..Len(contentBlocks) :
    (j <= Len(StartEvents) /\ contentBlocks[j].type = "text"
       /\ StartEvents[j].msg = 1 /\ round = 1) =>
      contentBlocks[j].text = ConcatDeltas(OwnDeltas(j))

\* Two text blocks of the first response are open and have got their deltas
\* in alternation.
FirstResponseInterleaved ==
  /\ round = 1
  /\ Len(DeltasSent) = 3
  /\ DeltasSent[1].index = 0 /\ DeltasSent[2].index = 1 /\ DeltasSent[3].index = 0
  /\ DeltasSent[1].delta_type = "text_delta"
  /\ DeltasSent[2].delta_type = "text_delta"

\* C12: a delta with position key k changes the block that was started with
\* key k in the response the delta belongs to, and leaves every other block,
\* those of earlier responses included, as it was.
C12_DeltaAppliesToBlockOfItsResponse ==
  [][ (Len(events') = Len(events) + 1
         /\ events'[Len(events')].type = "content_block_delta") =>
        LET e == events'[Len(events')]
            p == PositionOf(e.msg, e.index)
        IN  /\ Len(contentBlocks') = Len(contentBlocks)
            /\ \A j \in 1..Len(contentBlocks) :
                 j # p => contentBlocks'[j] = contentBlocks[j]
            /\ e.delta_type = "text_delta" =>
                 contentBlocks'[p].text = contentBlocks[p].text \o e.delta
            /\ (e.delta_type = "input_json_delta" /\ JsonParses(e.delta)) =>
                 contentBlocks'[p].input = JsonValue(e.delta) ]_vars

\* The position in uiMessages of the prompt of this turn, and the assistant
\* turn finalized at the n-th message_stop of the turn.
PromptPosition ==
  CHOOSE i \in 1..Len(uiMessages) :
    /\ uiMessages[i].role = "user"
    /\ \A h \in (i + 1)..Len(uiMessages) : uiMessages[h].role # "user"
Finalized(n) == uiMessages[PromptPosition + n]
MessageStops == SelectSeq(events, LAMBDA e : e.type = "message_stop")
StartsOfResponse(r) == SelectSeq(StartEvents, LAMBDA e : e.msg = r)

\* C13: the assistant turn finalized at the message_stop of response r holds
\* exactly the blocks started in response r, in start order and without
\* their position key; so no block is in two finalized turns.
C13_FinalizedTurnHoldsItsResponse ==
  \A r \in 1..Len(MessageStops) :
    LET turn == Finalized(r)
        starts == StartsOfResponse(r)
    IN  /\ turn.role = "assistant"
        /\ Len(turn.blocks) = Len(starts)
        /\ \A i \in 1..Len(turn.blocks) :
             /\ i <= Len(starts)
             /\ turn.blocks[i].type = starts[i].content_block.type
             /\ turn.blocks[i].id = starts[i].content_block.id
             /\ turn.blocks[i].apiIndex = NoIndex

\* What makes a block the block it is.
Identity(b) == <<b.type, b.id, b.name, b.apiIndex>>

\* C14: the block list only grows at its end: it holds one block per
\* content_block_start yielded so far, in the order of these events, and no
\* step removes a block or moves it to another position.
C14_BlockListIsMonotonic ==
  /\ [](/\ Len(contentBlocks) = Len(StartEvents)
        /\ \A j \in 1..Len(contentBlocks) :
             Identity(contentBlocks[j]) =
               << StartEvents[j].content_block.type,
                  StartEvents[j].content_block.id,
                  StartEvents[j].content_block.name,
                  StartEvents[j].index >>)
  /\ [][ /\ Len(contentBlocks') >= Len(contentBlocks)
         /\ \A j \in 1..Len(contentBlocks) :
              Identity(contentBlocks'[j]) = Identity(contentBlocks[j]) ]_vars

\* Blocks of two responses are in the list, the tool invocation of the first
\* has run, and a delta of the second response was handled.
C14_Witness ==
  /\ round = 2
  /\ Len(contentBlocks) >= 3
  /\ \E j \in 1..Len(contentBlocks) : contentBlocks[j].hasResult
  /\ DeltasSent # <<>>
  /\ DeltasSent[Len(DeltasSent)].msg = 2

\* The state of a tool invocation in the block list: 0 pending, 1 executing,
\* 2 completed or failed; -1 for any other combination of its fields.
Stage(b) ==
  CASE b.isExecuting = "undefined" /\ ~b.hasResult /\ b.isError = "undefined" -> 0
    [] b.isExecuting = "true" /\ ~b.hasResult /\ b.isError = "undefined" -> 1
    [] b.isExecuting = "false" /\ b.hasResult /\ b.isError \in {"true", "false"} -> 2
    [] OTHER -> -1

\* C15: each tool invocation in the block list is pending, executing, or
\* completed/failed, moves only forward through these states, and gets its
\* result only while it is executing.
C15_InvocationMovesForward ==
  /\ [](\A j \in 1..Len(contentBlocks) :
          contentBlocks[j].type = "tool_use" => Stage(contentBlocks[j]) >= 0)
  /\ [][ \A j \in 1..Len(contentBlocks) :
           (j <= Len(contentBlocks') /\ contentBlocks[j].type = "tool_use") =>
             /\ Stage(contentBlocks'[j]) >= Stage(contentBlocks[j])
             /\ (Stage(contentBlocks'[j]) = 2 /\ Stage(contentBlocks[j]) # 2) =>
                  Stage(contentBlocks[j]) = 1 ]_vars

\* One invocation has completed, one has failed, and the next response is
\* being streamed.
C15_Witness ==
  /\ pc = "stream"
  /\ \E i, j \in 1..Len(contentBlocks) :
       /\ contentBlocks[i].type = "tool_use" /\ Stage(contentBlocks[i]) = 2
       /\ contentBlocks[i].isError = "false"
       /\ contentBlocks[j].type = "tool_use" /\ Stage(contentBlocks[j]) = 2
       /\ contentBlocks[j].isError = "true"

\* C16: the input of a tool invocation is the value of the last payload sent
\* for it that parsed, as a whole, and the empty object as long as none has
\* parsed.
C16_InputIsLastParsedPayload ==
  \A j \in 1..Len(contentBlocks) :
    (j <= Len(StartEvents) /\ contentBlocks[j].type = "tool_use") =>
      contentBlocks[j].input = LastParsed(OwnDeltas(j))

\* Within the first response of a turn the statement of C16 does hold.
FirstResponseInputIsLastParsed ==
  \A j \in 1..Len(contentBlocks) :
    (j <= Len(StartEvents) /\ contentBlocks[j].type = "tool_use"
       /\ StartEvents[j].msg = 1 /\ round = 1) =>
      contentBlocks[j].input = LastParsed(OwnDeltas(j))

\* An invocation of the first response got a complete document, then another
\* complete one, then a partial one.
FirstResponseInputReplaced ==
  /\ round = 1
  /\ Len(DeltasSent) = 3
  /\ \A i \in 1..3 : DeltasSent[i].delta_type = "input_json_delta"
  /\ DeltasSent[1].delta = <<"{", "path:a.ts", "}">>
  /\ DeltasSent[2].delta = <<"{", "old:x", "}">>
  /\ DeltasSent[3].delta = <<"{", "path:a.ts">>

\* C17: once the tool_execution_end of an invocation was handled, the
\* invocation of that id in the assistant turns of the message list carries
\* the announced result and flag and is not marked executing.
C17_FinalizedInvocationShowsOutcome ==
  \A q \in 1..Len(events) :
    events[q].type = "tool_execution_end" =>
      \A i \in 1..Len(uiMessages) :
        \A j \in 1..Len(uiMessages[i].blocks) :
          LET b == uiMessages[i].blocks[j]
          IN  (uiMessages[i].role = "assistant" /\ b.type = "tool_use"
                 /\ b.id = events[q].tool_use_id) =>
                /\ b.hasResult
                /\ b.result = events[q].result
                /\ b.isError = (IF events[q].is_error THEN "true" ELSE "false")
                /\ b.isExecuting # "true"

(***************************************************************************)
(* Properties of edit_file                                                 *)
(***************************************************************************)

\* The positions (1-based) at which t occurs in s.
OccurrencePositions(s, t) ==
  {i \in 1..(Len(s) - Len(t) + 1) : SubSeq(s, i, i + Len(t) - 1) = t}

\* s with the Len(t) characters at position i replaced by u.
SubstitutedAt(s, i, t, u) ==
  SubSeq(s, 1, i - 1) \o u \o SubSeq(s, i + Len(t), Len(s))

IsErrorReport(result) ==
  result # <<>> /\ Head(result) \in {ErrorPrefix, "Error editing file: "}
IsSuccessReport(result) ==
  result # <<>> /\ Head(result) = "File edited successfully."

\* The file was present and old_string occurs in it exactly once.
OccursOnce ==
  /\ lastEdit.ran
  /\ lastEdit.before.exists
  /\ Cardinality(OccurrencePositions(lastEdit.before.content,
                                     lastEdit.old_string)) = 1

\* The edit was made: the report says so and the file holds the old content
\* with new_string in the place of the one occurrence of old_string.
EditMade ==
  LET pos == CHOOSE i \in OccurrencePositions(lastEdit.before.content,
                                              lastEdit.old_string) : TRUE
  IN  /\ IsSuccessReport(lastEdit.result)
      /\ file.exists
      /\ file.content = SubstitutedAt(lastEdit.before.content, pos,
                                      lastEdit.old_string, lastEdit.new_string)

\* C18 as stated: whenever old_string occurs exactly once in the file,
\* whatever new_string is, edit_file succeeds and the file then holds the
\* old content with new_string in the place of that occurrence.
C18_UniqueMatchIsReplaced == OccursOnce => EditMade

\* C18 as amended: the same for every new_string other than old_string, when
\* the file can be read and written.
C18_UniqueMatchIsReplacedUnlessNoOp ==
  (OccursOnce /\ lastEdit.new_string # lastEdit.old_string
     /\ lastEdit.io = "none") => EditMade

\* A string in the middle of the file was replaced by a longer one.
C18_Witness ==
  /\ OccursOnce
  /\ lastEdit.io = "none"
  /\ lastEdit.before.content = <<"a", "b", "a">>
  /\ lastEdit.old_string = <<"b">>
  /\ lastEdit.new_string = <<" ", "b">>
  /\ file.content = <<"a", " ", "b", "a">>

\* C19: when old_string occurs in the file (which was read) no times or
\* more than once, the report starts with "Error: ", for more than one
\* occurrence it is the message that gives the count, nothing is written and
\* the file is as before.
C19_NoOrAmbiguousMatchIsRefused ==
  (lastEdit.ran /\ lastEdit.before.exists /\ lastEdit.io # "read"
     /\ Cardinality(OccurrencePositions(lastEdit.before.content,
                                        lastEdit.old_string)) # 1) =>
    /\ Head(lastEdit.result) = ErrorPrefix
    /\ Cardinality(OccurrencePositions(lastEdit.before.content,
                                       lastEdit.old_string)) > 1 =>
         lastEdit.result[2] = "Found "
    /\ ~lastEdit.wrote
    /\ file = lastEdit.before

\* "aa" is edited in "aaa": its two occurrences overlap, split() yields two
\* pieces, and the first occurrence is replaced.
OverlappingMatchWritten ==
  /\ lastEdit.ran
  /\ lastEdit.before.content = <<"a", "a", "a">>
  /\ lastEdit.old_string = <<"a", "a">>
  /\ lastEdit.new_string = <<"b">>
  /\ lastEdit.io = "none"
  /\ lastEdit.wrote
  /\ IsSuccessReport(lastEdit.result)
  /\ file.content = <<"b", "a">>

\* The checks of edit-file.ts 98, 106, 117 and 122 have passed.
ChecksPassed ==
  /\ lastEdit.before.exists
  /\ Includes(lastEdit.before.content, lastEdit.old_string)
  /\ Occurrences(lastEdit.before.content, lastEdit.old_string) <= 1
  /\ lastEdit.old_string # lastEdit.new_string

\* C20: a call of edit_file never throws; with the file absent, or with
\* old_string equal to new_string, it returns an error report and leaves the
\* file system as it was; and the file is written, and changes, only once
\* the checks for existence, presence, uniqueness and old # new have all
\* passed.
C20_NoThrowNoWriteOnFailedCheck ==
  lastEdit.ran =>
    /\ ~lastEdit.threw
    /\ (~lastEdit.before.exists \/ lastEdit.old_string = lastEdit.new_string) =>
         /\ IsErrorReport(lastEdit.result)
         /\ ~lastEdit.wrote
         /\ file = lastEdit.before
    /\ lastEdit.wrote => ChecksPassed
    /\ file # lastEdit.before => lastEdit.wrote
    /\ ~ChecksPassed => IsErrorReport(lastEdit.result)

\* edit_file was called with old_string = new_string, old_string being in
\* the file exactly once, and has refused the edit.
C20_Witness ==
  /\ OccursOnce
  /\ lastEdit.old_string = lastEdit.new_string
  /\ lastEdit.old_string # <<>>
  /\ lastEdit.io = "none"
  /\ lastEdit.result[2] =
       "old_string and new_string are identical. No changes needed."
  /\ file = lastEdit.before

(***************************************************************************)
(* Properties of generateDiff                                              *)
(***************************************************************************)

\* The lines of the body under one tag, and the context lines in front of
\* the first changed line.
TextsTagged(body, tag) ==
  LET sel == SelectSeq(body, LAMBDA l : l.tag = tag)
  IN  [i \in 1..Len(sel) |-> sel[i].text]
RECURSIVE LeadingContext(_)
LeadingContext(body) ==
  IF body # <<>> /\ Head(body).tag = " "
  THEN <<Head(body).text>> \o LeadingContext(Tail(body))
  ELSE <<>>
RECURSIVE TrailingContext(_)
TrailingContext(body) ==
  IF body # <<>> /\ body[Len(body)].tag = " "
  THEN TrailingContext(SubSeq(body, 1, Len(body) - 1)) \o <<body[Len(body)].text>>
  ELSE <<>>

\* The number of old lines in front of the change, as the diff reports it:
\* the header's first line number and the context lines after it.
ReportedPosition(d) == (d.header.oldStart - 1) + Len(LeadingContext(d.body))

\* The old lines with the "-" lines taken out at the reported position and
\* the "+" lines put there.
ApplyDiff(lines, d) ==
  LET pos == ReportedPosition(d)
      removed == TextsTagged(d.body, "-")
      added == TextsTagged(d.body, "+")
  IN  SubSeq(lines, 1, pos) \o added
        \o SubSeq(lines, pos + Len(removed) + 1, Len(lines))

\* C21: for contents that differ, the "-" lines of the diff are the old
\* lines at the reported position, replacing them there by the "+" lines
\* gives exactly the new lines, and the context lines in front of and behind
\* the change are the lines found there in the old and in the new content.
C21_DiffRoundTrip ==
  diff.ran =>
    LET oldLines == SplitLines(diff.oldContent)
        newLines == SplitLines(diff.newContent)
        pos == ReportedPosition(diff)
        removed == TextsTagged(diff.body, "-")
        added == TextsTagged(diff.body, "+")
        before == LeadingContext(diff.body)
        after == TrailingContext(diff.body)
    IN  /\ pos + Len(removed) <= Len(oldLines)
        /\ SubSeq(oldLines, pos + 1, pos + Len(removed)) = removed
        /\ ApplyDiff(oldLines, diff) = newLines
        /\ Len(diff.body) = Len(before) + Len(removed) + Len(added) + Len(after)
        /\ SubSeq(oldLines, pos - Len(before) + 1, pos) = before
        /\ SubSeq(newLines, pos - Len(before) + 1, pos) = before
        /\ SubSeq(oldLines, pos + Len(removed) + 1,
                  pos + Len(removed) + Len(after)) = after
        /\ SubSeq(newLines, pos + Len(added) + 1,
                  pos + Len(added) + Len(after)) = after

\* A line in the middle of six was changed: the diff has context on both
\* sides, cut to three lines in front.
C21_Witness ==
  /\ diff.ran
  /\ Len(SplitLines(diff.oldContent)) = 6
  /\ Len(LeadingContext(diff.body)) = 3
  /\ ReportedPosition(diff) = 4
  /\ TextsTagged(diff.body, "-") = << <<>> >>
  /\ TextsTagged(diff.body, "+") = << <<"x">> >>
  /\ Len(TrailingContext(diff.body)) = 1

(***************************************************************************)
(* Properties of the bash tool                                             *)
(***************************************************************************)

\* What the data handlers keep of the chunks written to one stream, as a
\* function of that stream alone.
RECURSIVE CaptureOf(_, _)
CaptureOf(written, captured) ==
  IF written = <<>> THEN captured
  ELSE CaptureOf(Tail(written),
                 IF Length(captured) + Head(written) <= MAX_OUTPUT_SIZE
                 THEN Append(captured, Head(written)) ELSE captured)

\* A step in which a chunk arrives that would take its stream over the cap.
ChunkOverCap ==
  \/ /\ Len(child'.wroteOut) > Len(child.wroteOut)
     /\ Length(bash.stdout) + child'.wroteOut[Len(child'.wroteOut)]
          > MAX_OUTPUT_SIZE
  \/ /\ Len(child'.wroteErr) > Len(child.wroteErr)
     /\ Length(bash.stderr) + child'.wroteErr[Len(child'.wroteErr)]
          > MAX_OUTPUT_SIZE

\* C22: the captured stdout and the captured stderr are never longer than
\* MAX_OUTPUT_SIZE; what is captured of a stream depends on the chunks of
\* that stream only; and a chunk over the cap leaves no trace in the state of
\* the call (it is dropped, not kept).
C22_OutputCapsHold ==
  /\ [](/\ Length(bash.stdout) <= MAX_OUTPUT_SIZE
        /\ Length(bash.stderr) <= MAX_OUTPUT_SIZE
        /\ bash.stdout = CaptureOf(child.wroteOut, <<>>)
        /\ bash.stderr = CaptureOf(child.wroteErr, <<>>))
  /\ [][ChunkOverCap => bash' = bash]_vars

\* stdout is full and has dropped a chunk; stderr still took all of its own.
C22_Witness ==
  /\ Length(bash.stdout) = MAX_OUTPUT_SIZE
  /\ Len(child.wroteOut) = 2
  /\ Len(bash.stdout) = 1
  /\ child.wroteErr = <<1>>
  /\ bash.stderr = <<1>>

\* A process started for the command is running.
ProcessRunning ==
  child.shell = "running" \/ child.descendant \in {"attached", "detached"}

\* C23: a command still running when the timer fires has been killed with
\* SIGKILL; its report begins with the timed-out line naming the timeout;
\* and once the report is returned no process of the command is running.
C23_TimeoutLeavesNoProcess ==
  child.runningAtExpiry =>
    /\ child.shell = "killed" /\ child.signal = "SIGKILL"
    /\ bash.phase = "resolved" =>
         /\ bash.report # <<>>
         /\ Head(bash.report) = [kind |-> "timed_out", value |-> bash.timeout]
         /\ ~ProcessRunning

\* The report has an exit code line.
HasExitCode == \E i \in 1..Len(bash.report) : bash.report[i].kind = "exit_code"

\* The 'close' event has delivered the report.
Closed ==
  bash.phase = "resolved" /\ \A i \in 1..Len(bash.report) :
                               bash.report[i].kind # "spawn_error"

\* C24: the report shows the exit code exactly when the shell ended with an
\* exit code other than zero and was not killed by the timer; then the line
\* shows that code.
C24_ExitCodeShownIffFailedOnItsOwn ==
  Closed =>
    /\ HasExitCode <=>
         (child.shell = "exited" /\ child.code # 0)
    /\ HasExitCode =>
         bash.report[Len(bash.report)] = [kind |-> "exit_code", value |-> child.code]

(***************************************************************************)
(* Properties of the glob tool and the grep tool                           *)
(***************************************************************************)

\* The paths a returned text names, and those of a kind of part, in order.
ReturnedPaths(output) ==
  {output[i].path :
     i \in {j \in 1..Len(output) : output[j].kind \in {"entry", "file", "match"}}}
PartsOfKind(output, kind) == SelectSeq(output, LAMBDA part : part.kind = kind)
HasPart(output, kind) == PartsOfKind(output, kind) # <<>>
HasComponentIn(path, dirs) == \E i \in 1..Len(path) : path[i] \in dirs

\* C25: no path that glob returns has a component in glob's default
\* excluded directories or in the caller's excludeDirs, and no path that
\* grep returns has a component in grep's default excluded directories,
\* whatever the scan yields and whatever the options are.
C25_NoExcludedDirectoryInResults ==
  /\ \A path \in ReturnedPaths(glob.output) :
       /\ ~HasComponentIn(path, GLOB_DEFAULT_EXCLUDED_DIRS)
       /\ ~HasComponentIn(path, glob.excludeDirs)
  /\ \A path \in ReturnedPaths(grep.output) :
       ~HasComponentIn(path, GREP_DEFAULT_EXCLUDED_DIRS)

\* With includeHidden = true and excludeDirs = ["gen"] the scan yielded a
\* file of node_modules, one of gen and one of .github: only the last one
\* is returned.
C25_Witness ==
  /\ glob.phase = "returned"
  /\ glob.includeHidden
  /\ glob.excludeDirs = {Name("gen")}
  /\ glob.yielded = {<<Name("node_modules"), WithExt("m", "ts")>>,
                     <<Name("gen"), WithExt("g", "ts")>>,
                     <<Dotted("github"), WithExt("w", "ts")>>}
  /\ ReturnedPaths(glob.output) = {<<Dotted("github"), WithExt("w", "ts")>>}

\* C26: with includeHidden false no path returned by glob or by grep has a
\* component that starts with a dot.
C26_NoHiddenComponentByDefault ==
  /\ ~glob.includeHidden =>
       \A path \in ReturnedPaths(glob.output) : ~IsHidden(path)
  /\ ~grep.includeHidden =>
       \A path \in ReturnedPaths(grep.output) :
         \A i \in 1..Len(path) : path[i] = <<>> \/ Head(path[i]) # Dot

\* grep with includeHidden false came across .github/w.ts and a.ts, both
\* with a match, and returns the matches of a.ts only.
C26_Witness ==
  /\ grep.phase = "returned"
  /\ ~grep.includeHidden
  /\ grep.yielded = {<<Dotted("github"), WithExt("w", "ts")>>,
                     <<WithExt("a", "ts")>>}
  /\ ReturnedPaths(grep.output) = {<<WithExt("a", "ts")>>}

\* C27: glob lists at most maxResults paths and grep reports at most
\* maxResults matches, for every maxResults, 0 included.
C27_ResultCapHolds ==
  /\ Len(PartsOfKind(glob.output, "entry")) <= glob.maxResults
  /\ Len(PartsOfKind(grep.output, "match")) <= grep.maxResults

\* The modification time of the file at a path.
MtimeOf(path) == (CHOOSE f \in Files : f.path = path).mtime

\* C28: the paths glob lists are in non-increasing order of modification
\* time whatever the order of the scan; they are Min(maxResults, number of
\* results) different results, and no result left out is more recent than a
\* listed one.
C28_ListedByMtimeMostRecentFirst ==
  HasPart(glob.output, "found") =>
    LET entries == PartsOfKind(glob.output, "entry")
        listed == {entries[i].path : i \in 1..Len(entries)}
        found == {glob.results[i].path : i \in 1..Len(glob.results)}
    IN  /\ \A i, j \in 1..Len(entries) :
             i < j => /\ MtimeOf(entries[i].path) >= MtimeOf(entries[j].path)
                      /\ entries[i].path # entries[j].path
        /\ Len(entries) = Min(Len(glob.results), glob.maxResults)
        /\ listed \subseteq found
        /\ \A out \in found \ listed, in \in listed :
             MtimeOf(out) <= MtimeOf(in)

\* The scan yielded a.ts (older) before b.ts; with maxResults = 1 only b.ts
\* is listed.
C28_Witness ==
  /\ glob.phase = "returned"
  /\ glob.maxResults = 1
  /\ Len(glob.results) = 2
  /\ glob.results[1].path = <<WithExt("a", "ts")>>
  /\ glob.results[2].path = <<WithExt("b", "ts")>>
  /\ PartsOfKind(glob.output, "entry") = << Part("entry", <<WithExt("b", "ts")>>, 1, 0) >>

\* C29: a run that the scan cap stopped says so in its text, and a run cut
\* by the result cap reports the cut, glob with the number of results that
\* are not listed.
C29_BothCapsAreReported ==
  /\ glob.stopped => HasPart(glob.output, "scan_cap")
  /\ (HasPart(glob.output, "found") /\ Len(glob.results) > glob.maxResults) =>
       PartsOfKind(glob.output, "more_not_shown")
         = << Part("more_not_shown", <<>>,
                   Len(glob.results) - Len(PartsOfKind(glob.output, "entry")), 0) >>
  /\ grep.stopped => HasPart(grep.output, "scan_cap")
  /\ (HasPart(grep.output, "found_or_more")) =>
       PartsOfKind(grep.output, "limited")
         = << Part("limited", <<>>, grep.maxResults, 0) >>

(***************************************************************************)
(* Properties of the tool registry                                         *)
(***************************************************************************)

\* The names advertised to the model.
AdvertisedNames == {allTools[i].name : i \in 1..Len(allTools)}

\* The event at p starts an invocation that the loop has dispatched, and it
\* was not answered as an unknown tool.
DispatchedAt(p) ==
  /\ events[p].type = "tool_execution_start"
  /\ p < Len(events) \/ pc # "tool_dispatch"
  /\ ~(/\ p < Len(events)
       /\ events[p + 1].type = "tool_execution_end"
       /\ events[p + 1].result = UnknownToolContent(events[p].tool_name))

\* C30: the tools of allTools have different names; the names toolMap holds
\* are those of allTools, each with the run function of its tool; and the
\* loop dispatches an invocation to a function exactly when its name is
\* advertised.
C30_RegistryIsConsistent ==
  /\ \A i, j \in 1..Len(allTools) :
       i # j => allTools[i].name # allTools[j].name
  /\ DOMAIN toolMap = AdvertisedNames
  /\ \A i \in 1..Len(allTools) :
       PropertyOf(toolMap, allTools[i].name) = allTools[i].run
  /\ \A p \in 1..Len(events) :
       (events[p].type = "tool_execution_start"
          /\ (p < Len(events) \/ pc # "tool_dispatch")) =>
         (DispatchedAt(p) <=> events[p].tool_name \in AdvertisedNames)

\* The transcript of the current call starts at the turn of the new prompt.
NewUserTurn ==
  CHOOSE i \in 1..Len(messages) :
    /\ messages[i] = UserTurn(Prompt)
    /\ \A h \in 1..(i - 1) : messages[h] # UserTurn(Prompt)
ToolRoundInProgress == pc \in {"tool_start", "tool_dispatch", "tool_await", "tools_done"}
EndEventsOf(id) ==
  SelectSeq(events, LAMBDA e : e.type = "tool_execution_end" /\ e.tool_use_id = id)
AnswersInOrder(turn, answer) ==
  LET uses == ToolUsesOf(turn.blocks)
  IN  /\ answer.role = "user" /\ answer.kind = "blocks"
      /\ Len(answer.blocks) = Len(uses)
      /\ \A k \in 1..Len(uses) :
           /\ answer.blocks[k].type = "tool_result"
           /\ answer.blocks[k].tool_use_id = uses[k].id
           /\ Len(EndEventsOf(uses[k].id)) = 1
           /\ answer.blocks[k].content = EndEventsOf(uses[k].id)[1].result
           /\ answer.blocks[k].is_error = EndEventsOf(uses[k].id)[1].is_error
WellFormedTranscript ==
  messages # <<>> =>
    /\ \E i \in 1..Len(messages) : messages[i] = UserTurn(Prompt)
    /\ \A p \in NewUserTurn..(Len(messages) - 1) :
         messages[p].role # messages[p + 1].role
    /\ \A p \in NewUserTurn..Len(messages) :
         (messages[p].role = "assistant" /\ ToolUsesOf(messages[p].blocks) # <<>>) =>
           IF p = Len(messages) THEN ToolRoundInProgress
           ELSE AnswersInOrder(messages[p], messages[p + 1])

\* C31: once streamResponse has built its message list, the list only grows
\* at its end (no turn already in it is changed or removed), the roles
\* alternate from the turn of the new prompt on, and every assistant turn
\* with tool invocations is followed at once by one user turn that holds one
\* tool result per invocation, in the same order and under the same
\* tool_use_id, each with the result and is_error of that invocation's single
\* tool_execution_end event (the turn of a round whose tools are still being
\* executed is the last one of the list).
C31_TranscriptWellFormed ==
  /\ []WellFormedTranscript
  /\ [][messages # <<>> => IsPrefix(messages, messages')]_vars

\* Two rounds of tool use have been answered and the third response ended
\* the call: two assistant turns with invocations, each followed by its
\* results.
C31_Witness ==
  /\ pc = "done"
  /\ Cardinality({p \in 1..Len(messages) :
        messages[p].role = "assistant" /\ ToolUsesOf(messages[p].blocks) # <<>>}) = 2
  /\ Cardinality(ToolResultTurns) = 2
  /\ \E p \in 1..Len(messages) : \E k \in 1..Len(messages[p].blocks) :
        messages[p].role = "user" /\ messages[p].blocks[k].is_error

\* The generator started by handleSubmit has not returned or thrown, and the
\* test of index.tsx 119 that lets a submitted prompt through.
LoopRunning == pc \notin {"idle", "done", "failed"}
SubmitPasses == Prompt # <<>> /\ ~isStreaming

\* C32: from the start of streamResponse until its event sequence has ended,
\* after all tool rounds, isStreaming is true and a further handleSubmit
\* returns without starting another streamResponse.
C32_OneTurnInProgress == LoopRunning => (isStreaming /\ ~SubmitPasses)

\* The message handleSubmit's catch block builds: one text block that starts
\* with 'Error: '.
IsErrorMessage(msg) ==
  /\ msg.role = "assistant"
  /\ Len(msg.blocks) = 1
  /\ msg.blocks[1].type = "text"
  /\ msg.blocks[1].text # <<>>
  /\ Head(msg.blocks[1].text) = ErrorPrefix
StreamResponseThrows == pc # "failed" /\ pc' = "failed"

\* C33: when streamResponse throws, whether before the first event, between
\* events of any round or after the last response, handleSubmit appends
\* exactly one message, an assistant message whose text starts with
\* 'Error: ', clears the streaming blocks and leaves isStreaming false; and
\* once the event sequence has ended, by return or by throw, isStreaming is
\* false and a submitted prompt passes the test of handleSubmit again.
C33_FailureIsReportedOnce ==
  /\ []((pc \in {"done", "failed"}) => (~isStreaming /\ SubmitPasses))
  /\ [][StreamResponseThrows =>
          /\ Len(uiMessages') = Len(uiMessages) + 1
          /\ IsPrefix(uiMessages, uiMessages')
          /\ IsErrorMessage(uiMessages'[Len(uiMessages')])
          /\ streamingBlocks' = <<>>
          /\ ~isStreaming']_vars

\* The stream failed while the response after a tool round was arriving and
\* isStreaming had been true until then: the blocks shown were cleared and
\* the error message is the last message.
C33_Witness ==
  /\ pc = "failed"
  /\ round = 2
  /\ IsErrorMessage(uiMessages[Len(uiMessages)])
  /\ Len(SelectSeq(uiMessages, IsErrorMessage)) = 1
  /\ contentBlocks # <<>>
  /\ streamingBlocks = <<>>

(***************************************************************************)
(* The bash tool: the races of its events                                  *)
(***************************************************************************)

TimedOutShown == \E i \in 1..Len(bash.report) : bash.report[i].kind = "timed_out"

\* C34: the report of a closed run has the timed-out line only if the shell
\* had not exited when the timer fired; a shell that exited on its own is
\* not reported as timed out, and keeps its exit code line when the code is
\* not zero, in whatever order exit, timer expiry and close happen.
C34_TimedOutOnlyIfRunningAtExpiry ==
  Closed =>
    /\ TimedOutShown => child.runningAtExpiry
    /\ child.shell = "exited" => ~TimedOutShown
    /\ (child.shell = "exited" /\ child.code # 0) => HasExitCode

\* C35: what is captured of stdout is a prefix, in whole chunks, of what the
\* process wrote to stdout, and likewise for stderr: after a dropped chunk
\* no later chunk of the stream is appended.
C35_CaptureIsPrefix ==
  /\ IsPrefix(bash.stdout, child.wroteOut)
  /\ IsPrefix(bash.stderr, child.wroteErr)

(***************************************************************************)
(* generateDiff: the hunk header                                           *)
(***************************************************************************)

\* The number of lines two line sequences have in common at their start.
CommonPrefixLength(a, b) ==
  CHOOSE k \in 0..Min(Len(a), Len(b)) :
    /\ SubSeq(a, 1, k) = SubSeq(b, 1, k)
    /\ k = Min(Len(a), Len(b)) \/ a[k + 1] # b[k + 1]

\* The 1-indexed number of the first line a diff of the two shows: three
\* lines in front of the first difference, or the first line.
FirstEmittedLine(oldLines, newLines) ==
  Max(0, CommonPrefixLength(oldLines, newLines) - contextLines) + 1

\* C36: in the diff of two contents that differ, both line numbers of the
\* header are the number of the first emitted line; the old count is the
\* number of emitted context and removed lines, the new count the number of
\* emitted context and added lines; the context lines are those in front of
\* and behind the change, at most three on each side.
C36_HeaderMatchesBody ==
  diff.ran =>
    LET oldLines == SplitLines(diff.oldContent)
        newLines == SplitLines(diff.newContent)
        first == FirstEmittedLine(oldLines, newLines)
        context == TextsTagged(diff.body, " ")
        removed == TextsTagged(diff.body, "-")
        added == TextsTagged(diff.body, "+")
        before == LeadingContext(diff.body)
        after == TrailingContext(diff.body)
    IN  /\ diff.body # <<>>
        /\ diff.header.oldStart = first
        /\ diff.header.newStart = first
        /\ diff.body[1].text =
             (IF diff.body[1].tag = "+" THEN newLines[first] ELSE oldLines[first])
        /\ diff.header.oldCount = Len(context) + Len(removed)
        /\ diff.header.newCount = Len(context) + Len(added)
        /\ Len(context) = Len(before) + Len(after)
        /\ Len(before) <= 3
        /\ Len(after) <= 3

\* The first of six lines was changed: no context in front, and three of the
\* five lines behind the change are shown.
C36_Witness ==
  /\ diff.ran
  /\ Len(SplitLines(diff.oldContent)) = 6
  /\ LeadingContext(diff.body) = <<>>
  /\ Len(TrailingContext(diff.body)) = 3
  /\ diff.header = [oldStart |-> 1, oldCount |-> 4, newStart |-> 1, newCount |-> 4]

(***************************************************************************)
(* The grep tool: the order of its results                                 *)
(***************************************************************************)

MatchParts(output) ==
  LET parts == PartsOfKind(output, "match")
  IN  [i \in 1..Len(parts) |->
         [file |-> parts[i].path, line |-> parts[i].value, column |-> parts[i].column]]

\* C37: whatever the pattern, also one that matches the empty string, the
\* results of grep never hold two entries with the same file, line and
\* column; the results of one file are in non-decreasing line order; and the
\* returned text lists the files in the order of their first result, each
\* once, with the results in the order they were found.
C37_EachMatchOnce ==
  /\ \A i, j \in 1..Len(grep.results) :
       i < j =>
         /\ grep.results[i] # grep.results[j]
         /\ grep.results[i].file = grep.results[j].file =>
              /\ grep.results[i].line <= grep.results[j].line
              /\ \A k \in i..j : grep.results[k].file = grep.results[i].file
  /\ (grep.phase = "returned" /\ HasPart(grep.output, "match")) =>
       MatchParts(grep.output) = grep.results

(***************************************************************************)
(* Properties of the todo tool                                             *)
(***************************************************************************)

ListIds(todoLists) == {todoLists[k].id : k \in 1..Len(todoLists)}
ListsOtherThan(todoLists, listId) == SelectSeq(todoLists, LAMBDA l : l.id # listId)

\* The list a call addresses: the one its todoId names, the active list when
\* the call has no todoId (absent or empty).
Addressed ==
  IF todo'.call.todoId \in {"undefined", ""} THEN todo.currentTodoId
  ELSE todo'.call.todoId
Addressing == todo'.call.action \in {"add", "complete", "uncomplete", "remove", "get"}
Successful == ~todo'.call.isError /\ todo'.call.kind # "no_list_found"

\* C38: currentTodoId is null exactly while no list was ever created and
\* otherwise the id of a list in the store; a successful create adds one
\* list, empty and under a new id, changes no other list and makes the new
\* list the active one; every other action leaves the active pointer as it
\* was and works on the list it addresses, the list of its todoId or,
\* without todoId, the active list: no other list changes, a successful call
\* shows that list, and a todoId that names no list is an error.
C38_ActiveListAndAddressing ==
  /\ [](/\ todo.currentTodoId = "null" <=> todo.generated = 0
        /\ todo.currentTodoId = "null" <=> todo.todoLists = <<>>
        /\ todo.currentTodoId # "null" => todo.currentTodoId \in ListIds(todo.todoLists))
  /\ [][/\ (todo'.call.action = "create" /\ ~todo'.call.isError) =>
             /\ Len(todo'.todoLists) = Len(todo.todoLists) + 1
             /\ IsPrefix(todo.todoLists, todo'.todoLists)
             /\ todo'.todoLists[Len(todo'.todoLists)].items = <<>>
             /\ todo'.todoLists[Len(todo'.todoLists)].id \notin ListIds(todo.todoLists)
             /\ todo'.currentTodoId = todo'.todoLists[Len(todo'.todoLists)].id
        /\ todo'.call.action # "create" => todo'.currentTodoId = todo.currentTodoId
        /\ Addressing =>
             /\ ListIds(todo'.todoLists) = ListIds(todo.todoLists)
             /\ ListsOtherThan(todo'.todoLists, Addressed)
                  = ListsOtherThan(todo.todoLists, Addressed)
             /\ Successful => (Addressed \in ListIds(todo.todoLists)
                               /\ todo'.call.shown = Addressed)
             /\ Addressed \notin ListIds(todo.todoLists) =>
                  (todo'.todoLists = todo.todoLists /\ ~Successful)
       ]_vars

\* An item was added to the first list by its todoId while the second list
\* is the active one.
C38_Witness ==
  /\ todo.call.action = "add" /\ ~todo.call.isError
  /\ todo.call.todoId = "id1"
  /\ todo.currentTodoId = "id2"
  /\ Len(todo.todoLists) = 2
  /\ Len(todo.todoLists[1].items) = 1
  /\ todo.todoLists[2].items = <<>>

\* The position of the addressed item in the addressed list.
AddressedList == MapGet(todo.todoLists, Addressed)
AddressedItem == FindIndex(todo.todoLists[AddressedList].items, todo'.call.itemId)
StoreUnchanged ==
  /\ todo'.todoLists = todo.todoLists
  /\ todo'.currentTodoId = todo.currentTodoId
  /\ todo'.generated = todo.generated

\* C39: a call that returns an 'Error:' text leaves the store and the active
\* pointer as they were, and so do get and list_all; a successful complete
\* or uncomplete sets the completed flag of the one item with the given id
\* in the addressed list and nothing else, and doing it again changes
\* nothing; a successful remove takes exactly that item out of its list and
\* leaves the other items in their order.
C39_ErrorsAndItemActionsAreLocal ==
  [][/\ todo'.call.isError => StoreUnchanged
     /\ todo'.call.action \in {"get", "list_all"} => StoreUnchanged
     /\ (todo'.call.action \in {"complete", "uncomplete"} /\ ~todo'.call.isError) =>
          /\ AddressedList # 0 /\ AddressedItem # NoIndex
          /\ Cardinality({i \in 1..Len(todo.todoLists[AddressedList].items) :
                todo.todoLists[AddressedList].items[i].id = todo'.call.itemId}) = 1
          /\ todo'.todoLists =
               [todo.todoLists EXCEPT ![AddressedList].items[AddressedItem].completed =
                                         (todo'.call.action = "complete")]
          /\ todo'.currentTodoId = todo.currentTodoId
          /\ todoRun(todo', InputOf(todo'.call)).todoLists = todo'.todoLists
     /\ (todo'.call.action = "remove" /\ ~todo'.call.isError) =>
          /\ AddressedList # 0 /\ AddressedItem # NoIndex
          /\ todo'.todoLists =
               [todo.todoLists EXCEPT ![AddressedList].items =
                  SelectSeq(@, LAMBDA item : item.id # todo'.call.itemId)]
          /\ Len(todo'.todoLists[AddressedList].items)
               = Len(todo.todoLists[AddressedList].items) - 1
          /\ todo'.currentTodoId = todo.currentTodoId
    ]_vars

\* The first of the two items of a list was removed: the second is left.
C39_Witness ==
  /\ todo.call.action = "remove" /\ ~todo.call.isError
  /\ todo.call.itemId = "id2"
  /\ Len(todo.todoLists) = 1
  /\ Len(todo.todoLists[1].items) = 1
  /\ todo.todoLists[1].items[1].id = "id3"

====
